---------------------------- MODULE Spec2Model ----------------------------
(***************************************************************************)
(* Spiking-neuron sonification network (Publicoprivado/snn).               *)
(*                                                                         *)
(* Units.  Every quantity the source keeps as a fraction in [0,1] (charge, *)
(* dcInput, weight, speed) is kept here in thousandths (1.0 = 1000).       *)
(* Values derived from them by the parameter mapper are kept in millionths *)
(* so that every product the source computes is exact.  Time is in         *)
(* milliseconds.                                                           *)
(***************************************************************************)
EXTENDS Integers, Sequences, FiniteSets, TLC

\* ------------------------------------------------------------------ bounds
MaxTicks == 12          \* clock ticks explored by the timed specifications
MaxSoundTicks == 8      \* clock ticks explored by SpecSound
MaxMelodyTicks == 5     \* clock ticks (of one rate-limit window) in SpecMelody
MaxNeurons == 2         \* neurons in window.circles
MaxConnections == 2     \* edge records createConnection is called up to
MaxCalls == 2           \* calls made on the neurons from outside their timers

\* -------------------------------------------------------- program constants
minTimeBetweenNotes == 200      \* SoundManager.minTimeBetweenNotes (ms)
refractionPeriod == 100         \* Neuron.refractionPeriod (ms)
threshold == 1000               \* Neuron.threshold (1.0)
dcTickPeriod == 50              \* setInterval period of the DC bias task (ms)
proximityThreshold == 500       \* checkProximityConnection threshold (0.5 units)
defaultWeight == 200            \* weight of a new connection (0.2)
creationNoteDelay == 100        \* setTimeout delay of createNewNeuron's note (ms)
groundHeight == -10000          \* height given to a double-click neuron (-10)

melodicPattern == <<0, 2, 4, 3, 1>>
ranges == <<"mid", "high", "low">>
notes == [high |-> <<"A5", "C6", "D6", "E6", "G6">>,
          mid  |-> <<"A4", "C5", "D5", "E5", "G5">>,
          low  |-> <<"A3", "C4", "D4", "E4", "G4">>]

Min(a, b) == IF a < b THEN a ELSE b
MaxSecond(a, b) == b
Max(a, b) == IF a > b THEN a ELSE b
\* The last two entries of a log.
LastTwo(log) == IF Len(log) > 2 THEN Tail(log) ELSE log

\* The time grid: the DC bias period is the finest period of the program.
TimeStep == dcTickPeriod
\* Date.now() counts from 1970, performance.now() from page load: the wall
\* clock is the page clock plus an origin far larger than any interval used.
dateOrigin == 8 * minTimeBetweenNotes

\* ------------------------------------------------------------------- state
VARIABLES
    now,                  \* performance.now(), ms since page load
    \* SoundManager
    lastPlayTime,         \* Date.now() of the last emitted request, 0 at start
    isPlaying,
    currentPatternIndex,  \* 0-based index into melodicPattern
    neuronNotes,          \* Map id -> [range, noteIndex]
    lastNoteIndex,
    melodyDirection,
    lastPayload,          \* <<payload>> handed to the synth by the last emission
    \* observation of the sound manager's calls (history)
    lastRequest,          \* <<the most recent playNeuronFiring call>>
    emitTimes,            \* Date.now() of the last two emitted payloads, oldest first
    assignOrder,          \* ids in the order assignNoteRange was called for them
    \* window.circles and the meshes' positions
    numCircles,           \* window.circles.length; circle i is neuron i
    position,             \* position[i] = [x, y]: mesh position (z kept constant)
    \* ConnectionManager
    connections,          \* the connections Map, in insertion order
    isDraggingArrow,
    selectedConnection,   \* <<>> or <<[idx, conn]>>, see Selected
    \* Neuron: outgoing edges
    outgoingConnections,  \* [neuron -> Set of target indices]
    synapticWeights,      \* [neuron -> Map target -> weight]
    synapticSpeeds,       \* [neuron -> Map target -> speed]
    \* InputManager
    draggedNeuron,        \* index of the dragged neuron, -1 for null
    velocityNonZero,      \* the last drag move changed the position
    throwing,             \* neurons whose release tween is running
    \* observation (history)
    lastOp,               \* the operation performed by the last step
    \* Neuron: state machine
    id,                   \* [neuron -> sound id]
    creationTimeouts,     \* setTimeout callbacks pending in createNewNeuron
    currentCharge,        \* [neuron -> charge]
    isFiring,
    lastFiringTime,       \* performance.now() of the last firing, 0 at start
    dcInput,
    dcInterval,           \* 0 for null, else the time the interval fires next
    intervals,            \* [neuron -> setInterval timers of it that are not cleared]
    currentAnimation,     \* 0: null or a scale tween; else the time the
                          \* firing timeline completes
    timeouts,             \* setTimeout callbacks pending in fire()
    particleAnimations,   \* signal particles under way
    \* observation (history)
    calls,                \* number of calls made from outside the timers
    fireTimes,            \* [neuron -> times of its last two firings, oldest first]
    lastCall              \* <<the Neuron call made by the last step>>

soundVars == <<lastPlayTime, isPlaying, currentPatternIndex, neuronNotes,
               lastNoteIndex, melodyDirection, lastPayload,
               lastRequest, emitTimes, assignOrder>>

graphVars == <<connections, isDraggingArrow, selectedConnection,
               outgoingConnections, synapticWeights, synapticSpeeds>>

inputVars == <<draggedNeuron, velocityNonZero, throwing>>

neuronVars == <<id, creationTimeouts, currentCharge, isFiring, lastFiringTime, dcInput, dcInterval,
                intervals, currentAnimation, timeouts, particleAnimations, calls,
                fireTimes, lastCall>>

chargeVars == <<currentCharge, isFiring, lastFiringTime, dcInput, dcInterval,
                intervals, currentAnimation, timeouts, particleAnimations, calls,
                fireTimes, lastCall>>

otherVars == <<numCircles, position, graphVars, inputVars, lastOp, neuronVars>>

vars == <<now, soundVars, otherVars>>

DateNow == dateOrigin + now

\* ------------------------------------------------------------ SoundManager
\* Math.max(lo, Math.min(hi, x))
ClampBug(x, lo, hi) == x

Clamp(x, lo, hi) == Max(lo, Min(hi, x))

\* assignNoteRange: the note descriptor given to neuronId and the counters after it.
AssignNoteRangeBug(neuronId) ==
    LET range == ranges[(neuronId % 3) + 1]
        noteIndex == melodicPattern[currentPatternIndex + 1]
        dir == IF lastNoteIndex >= Len(notes[range]) - 1 THEN -1
               ELSE IF lastNoteIndex <= 0 THEN 1 ELSE melodyDirection
    IN  [note |-> [range |-> range, noteIndex |-> noteIndex],
         patternIndex |-> (currentPatternIndex + 2) % Len(melodicPattern),
         direction |-> dir,
         lastIndex |-> (lastNoteIndex + dir) % Len(notes[range])]

AssignNoteRange(neuronId) ==
    LET range == ranges[(neuronId % 3) + 1]
        noteIndex == melodicPattern[currentPatternIndex + 1]
        dir == IF lastNoteIndex >= Len(notes[range]) - 1 THEN -1
               ELSE IF lastNoteIndex <= 0 THEN 1 ELSE melodyDirection
    IN  [note |-> [range |-> range, noteIndex |-> noteIndex],
         patternIndex |-> (currentPatternIndex + 1) % Len(melodicPattern),
         direction |-> dir,
         lastIndex |-> (lastNoteIndex + dir) % Len(notes[range])]

\* The envelope, modulation, effect levels, velocity and duration computed by
\* playNeuronFiring (millionths; weight, speed and distance in thousandths).
AudioParamsNoDC(weight, speed, isIsolated, hasDC, distance) ==
    LET w == Clamp(weight, 200, 800)
        s == Clamp(speed, 200, 800)
        envelope ==
            IF isIsolated
            THEN [attack |-> 20000, decay |-> 0, sustain |-> 100000, release |-> 0]
            ELSE [attack |-> 20000, decay |-> 200000 + w * 200,
                  sustain |-> 100000 + w * 100, release |-> 300000 + distance * 100]
        modulation ==
            IF isIsolated
            THEN [harmonicity |-> 2000000, modulationIndex |-> 1000000]
            ELSE [harmonicity |-> 2000000 + w * 1000, modulationIndex |-> 1000000 + w * 1000]
        effects ==
            IF isIsolated
            THEN [reverbWet |-> 0, chorusWet |-> 0]
            ELSE [reverbWet |-> Min(300000, distance * 100),
                  chorusWet |-> 100000 + s * 100]
        velocity == IF isIsolated THEN 400000 ELSE 500000 + w * 300
    IN  [envelope |-> envelope, modulation |-> modulation, effects |-> effects,
         velocity |-> velocity,
         duration |-> Max(100000, envelope.sustain + envelope.release)]

AudioParams(weight, speed, isIsolated, hasDC, distance) ==
    LET w == Clamp(weight, 200, 800)
        s == Clamp(speed, 200, 800)
        envelope ==
            IF isIsolated
            THEN IF hasDC
                 THEN [attack |-> 20000, decay |-> 300000, sustain |-> 0, release |-> 0]
                 ELSE [attack |-> 20000, decay |-> 0, sustain |-> 100000, release |-> 0]
            ELSE [attack |-> 20000, decay |-> 200000 + w * 200,
                  sustain |-> 100000 + w * 100, release |-> 300000 + distance * 100]
        modulation ==
            IF isIsolated
            THEN IF hasDC
                 THEN [harmonicity |-> 2000000, modulationIndex |-> 1500000]
                 ELSE [harmonicity |-> 2000000, modulationIndex |-> 1000000]
            ELSE [harmonicity |-> 2000000 + w * 1000, modulationIndex |-> 1000000 + w * 1000]
        effects ==
            IF isIsolated
            THEN IF hasDC
                 THEN [reverbWet |-> 0, chorusWet |-> 200000]
                 ELSE [reverbWet |-> 0, chorusWet |-> 0]
            ELSE [reverbWet |-> Min(300000, distance * 100),
                  chorusWet |-> 100000 + s * 100]
        velocity == IF isIsolated THEN (IF hasDC THEN 600000 ELSE 400000)
                    ELSE 500000 + w * 300
    IN  [envelope |-> envelope, modulation |-> modulation, effects |-> effects,
         velocity |-> velocity,
         duration |-> Max(100000, envelope.sustain + envelope.release)]

\* The rate limiter's test: the request is dropped.
RateLimitedBug == DateNow - lastPlayTime < minTimeBetweenNotes - TimeStep

RateLimited == DateNow - lastPlayTime < minTimeBetweenNotes

\* The test of playNeuronFiring for a note already stored for neuronId.
HasNoteBug(neuronId) == neuronId \in DOMAIN neuronNotes /\ neuronId % 3 = 0

HasNote(neuronId) == neuronId \in DOMAIN neuronNotes

\* playNeuronFiring(weight, speed, neuronId, isIsolated, hasDC, distance)
PlayNeuronFiringAssignsFirst(weight, speed, neuronId, isIsolated, hasDC, distance) ==
    IF RateLimited
    THEN LET a == AssignNoteRange(neuronId)
         IN  /\ lastRequest' = <<[id |-> neuronId, at |-> DateNow, emitted |-> FALSE]>>
             /\ IF HasNote(neuronId)
                THEN UNCHANGED <<currentPatternIndex, neuronNotes, lastNoteIndex,
                                 melodyDirection, assignOrder>>
                ELSE /\ neuronNotes' = [i \in DOMAIN neuronNotes \cup {neuronId} |->
                                          IF i = neuronId THEN a.note ELSE neuronNotes[i]]
                     /\ currentPatternIndex' = a.patternIndex
                     /\ melodyDirection' = a.direction
                     /\ lastNoteIndex' = a.lastIndex
                     /\ assignOrder' = Append(assignOrder, neuronId)
             /\ UNCHANGED <<lastPlayTime, isPlaying, lastPayload, emitTimes>>
    ELSE LET assigned == HasNote(neuronId)
             a == AssignNoteRange(neuronId)
             noteData == IF assigned THEN neuronNotes[neuronId] ELSE a.note
         IN  /\ lastPlayTime' = DateNow
             /\ isPlaying' = TRUE
             /\ IF assigned
                THEN UNCHANGED <<currentPatternIndex, neuronNotes, lastNoteIndex,
                                 melodyDirection, assignOrder>>
                ELSE /\ neuronNotes' = [i \in DOMAIN neuronNotes \cup {neuronId} |->
                                          IF i = neuronId THEN a.note ELSE neuronNotes[i]]
                     /\ currentPatternIndex' = a.patternIndex
                     /\ melodyDirection' = a.direction
                     /\ lastNoteIndex' = a.lastIndex
                     /\ assignOrder' = Append(assignOrder, neuronId)
             /\ lastPayload' =
                    <<[note |-> notes[noteData.range][noteData.noteIndex + 1]]
                      @@ AudioParams(weight, speed, isIsolated, hasDC, distance)>>
             /\ lastRequest' = <<[id |-> neuronId, at |-> DateNow, emitted |-> TRUE]>>
             /\ emitTimes' = LastTwo(Append(emitTimes, DateNow))

PlayNeuronFiring(weight, speed, neuronId, isIsolated, hasDC, distance) ==
    IF RateLimited
    THEN /\ lastRequest' = <<[id |-> neuronId, at |-> DateNow, emitted |-> FALSE]>>
         /\ UNCHANGED <<lastPlayTime, isPlaying, currentPatternIndex, neuronNotes,
                        lastNoteIndex, melodyDirection, lastPayload,
                        emitTimes, assignOrder>>
    ELSE LET assigned == HasNote(neuronId)
             a == AssignNoteRange(neuronId)
             noteData == IF assigned THEN neuronNotes[neuronId] ELSE a.note
         IN  /\ lastPlayTime' = DateNow
             /\ isPlaying' = TRUE
             /\ IF assigned
                THEN UNCHANGED <<currentPatternIndex, neuronNotes, lastNoteIndex,
                                 melodyDirection, assignOrder>>
                ELSE /\ neuronNotes' = [i \in DOMAIN neuronNotes \cup {neuronId} |->
                                          IF i = neuronId THEN a.note ELSE neuronNotes[i]]
                     /\ currentPatternIndex' = a.patternIndex
                     /\ melodyDirection' = a.direction
                     /\ lastNoteIndex' = a.lastIndex
                     /\ assignOrder' = Append(assignOrder, neuronId)
             /\ lastPayload' =
                    <<[note |-> notes[noteData.range][noteData.noteIndex + 1]]
                      @@ AudioParams(weight, speed, isIsolated, hasDC, distance)>>
             /\ lastRequest' = <<[id |-> neuronId, at |-> DateNow, emitted |-> TRUE]>>
             /\ emitTimes' = LastTwo(Append(emitTimes, DateNow))

SoundInit ==
    /\ lastPlayTime = 0
    /\ isPlaying = FALSE
    /\ currentPatternIndex = 0
    /\ neuronNotes = <<>>
    /\ lastNoteIndex = 0
    /\ melodyDirection = 1
    /\ lastPayload = <<>>
    /\ lastRequest = <<>>
    /\ emitTimes = <<>>
    /\ assignOrder = <<>>


\* ------------------------------------------------------- Neuron: edge maps
Neurons == 0 .. MaxNeurons - 1
Circles == 0 .. numCircles - 1

EmptyMap == [k \in {} |-> 0]
Put(f, k, v) == [x \in DOMAIN f \cup {k} |-> IF x = k THEN v ELSE f[x]]
Drop(f, k) == [x \in DOMAIN f \ {k} |-> f[x]]
SeqRemove(seq, i) == SubSeq(seq, 1, i - 1) \o SubSeq(seq, i + 1, Len(seq))

\* The graph as the operations below transform it.
Graph == [connections |-> connections, selected |-> selectedConnection,
          outgoing |-> outgoingConnections, weights |-> synapticWeights,
          speeds |-> synapticSpeeds]

SetGraph(g) ==
    /\ connections' = g.connections
    /\ selectedConnection' = g.selected
    /\ outgoingConnections' = g.outgoing
    /\ synapticWeights' = g.weights
    /\ synapticSpeeds' = g.speeds

\* addConnection storing its parameters' default values (0.1, 0.5)
NeuronAddConnectionDefaults(g, n, targetIndex, initialWeight, initialSpeed) ==
    [g EXCEPT !.outgoing[n] = @ \cup {targetIndex},
              !.weights[n] = Put(@, targetIndex, 100),
              !.speeds[n] = Put(@, targetIndex, 500)]

\* Neuron.addConnection(targetIndex, initialWeight, initialSpeed)
NeuronAddConnection(g, n, targetIndex, initialWeight, initialSpeed) ==
    [g EXCEPT !.outgoing[n] = @ \cup {targetIndex},
              !.weights[n] = Put(@, targetIndex, initialWeight),
              !.speeds[n] = Put(@, targetIndex, initialSpeed)]

\* removeConnection that deletes the target from the Set only
NeuronRemoveConnectionSetOnly(g, n, targetIndex) ==
    [g EXCEPT !.outgoing[n] = @ \ {targetIndex}]

\* Neuron.removeConnection(targetIndex)
NeuronRemoveConnection(g, n, targetIndex) ==
    [g EXCEPT !.outgoing[n] = @ \ {targetIndex},
              !.weights[n] = Drop(@, targetIndex),
              !.speeds[n] = Drop(@, targetIndex)]

\* Neuron.updateConnectionWeight / updateConnectionSpeed
NeuronUpdateConnectionWeight(g, n, targetIndex, weight) ==
    IF targetIndex \in g.outgoing[n]
    THEN [g EXCEPT !.weights[n] = Put(@, targetIndex, weight)] ELSE g

NeuronUpdateConnectionSpeed(g, n, targetIndex, speed) ==
    IF targetIndex \in g.outgoing[n]
    THEN [g EXCEPT !.speeds[n] = Put(@, targetIndex, speed)] ELSE g

\* ------------------------------------------------------- ConnectionManager
\* selectedConnection refers to a connection object: one still in the Map
\* (idx >= 1, its place in insertion order) or one deleted from it (idx = 0,
\* conn = <<the object>>).
NoSelection == <<>>
SelectLive(i) == <<[idx |-> i, conn |-> <<>>]>>
SelectDetached(c) == <<[idx |-> 0, conn |-> <<c>>]>>

\* this.connections.delete(group) for the i-th entry
DeleteConnection(g, i) ==
    [g EXCEPT !.connections = SeqRemove(@, i),
              !.selected = IF @ = NoSelection THEN @
                           ELSE IF @[1].idx = i THEN SelectDetached(g.connections[i])
                           ELSE IF @[1].idx > i THEN SelectLive(@[1].idx - 1)
                           ELSE @]

\* createConnection(sourceNeuron, targetNeuron): an endpoint that is not a
\* circle is undefined and the call returns null.
CreateConnection(g, sourceNeuron, targetNeuron, randomSpeed) ==
    IF sourceNeuron \notin Circles \/ targetNeuron \notin Circles
    THEN g
    ELSE LET connection == [source |-> sourceNeuron, target |-> targetNeuron,
                            weight |-> defaultWeight, speed |-> randomSpeed,
                            arrowParent |-> TRUE]
         IN  NeuronAddConnection(
                 [g EXCEPT !.connections = Append(@, connection)],
                 sourceNeuron, targetNeuron, connection.weight, connection.speed)

\* distance < threshold between two meshes
Near(pos, a, b) ==
    LET dx == pos[a].x - pos[b].x
        dy == pos[a].y - pos[b].y
    IN  dx * dx + dy * dy < proximityThreshold * proximityThreshold

\* The connection the forEach scan of checkProximityConnection ends with: the
\* last entry joining the pair in either direction (0: none).
ExistingConnection(conns, neuron, otherNeuron) ==
    LET hits == {i \in 1 .. Len(conns) :
                    \/ conns[i].source = neuron /\ conns[i].target = otherNeuron
                    \/ conns[i].source = otherNeuron /\ conns[i].target = neuron}
    IN  IF hits = {} THEN 0 ELSE CHOOSE i \in hits : \A j \in hits : j <= i

\* One iteration of checkProximityConnection's loop over window.circles.
ProximityStepBug(g, pos, neuron, otherNeuron, randomSpeed) ==
    IF ~Near(pos, neuron, otherNeuron) THEN g
    ELSE CreateConnection(g, otherNeuron, neuron, randomSpeed)

\* The loop body creating the mover's edge next to the reverse one
ProximityStepKeepsOld(g, pos, neuron, otherNeuron, randomSpeed) ==
    LET e == ExistingConnection(g.connections, neuron, otherNeuron)
    IN  IF ~Near(pos, neuron, otherNeuron) THEN g
        ELSE IF e # 0 /\ g.connections[e].source = neuron THEN g
        ELSE CreateConnection(g, neuron, otherNeuron, randomSpeed)

\* The loop body replacing the existing connection whoever its source is
ProximityStepAlwaysTransfers(g, pos, neuron, otherNeuron, randomSpeed) ==
    LET e == ExistingConnection(g.connections, neuron, otherNeuron)
    IN  IF ~Near(pos, neuron, otherNeuron) THEN g
        ELSE IF e # 0
        THEN LET existingConnection == g.connections[e]
                 g1 == NeuronRemoveConnection(g, existingConnection.source,
                                              existingConnection.target)
                 g2 == DeleteConnection(g1, e)
             IN  CreateConnection(g2, neuron, otherNeuron, randomSpeed)
        ELSE CreateConnection(g, neuron, otherNeuron, randomSpeed)

\* The loop body giving the new connection the replaced one's weight and speed
ProximityStepInherits(g, pos, neuron, otherNeuron, randomSpeed) ==
    LET e == ExistingConnection(g.connections, neuron, otherNeuron)
    IN  IF ~Near(pos, neuron, otherNeuron) THEN g
        ELSE IF e # 0
        THEN IF g.connections[e].source # neuron
             THEN LET existingConnection == g.connections[e]
                      g1 == NeuronRemoveConnection(g, existingConnection.source,
                                                   existingConnection.target)
                      g2 == DeleteConnection(g1, e)
                      connection == [existingConnection EXCEPT
                                         !.source = neuron, !.target = otherNeuron]
                  IN  NeuronAddConnection(
                          [g2 EXCEPT !.connections = Append(@, connection)],
                          neuron, otherNeuron, connection.weight, connection.speed)
             ELSE g
        ELSE CreateConnection(g, neuron, otherNeuron, randomSpeed)

ProximityStep(g, pos, neuron, otherNeuron, randomSpeed) ==
    LET e == ExistingConnection(g.connections, neuron, otherNeuron)
    IN  IF ~Near(pos, neuron, otherNeuron) THEN g
        ELSE IF e # 0
        THEN IF g.connections[e].source # neuron
             THEN LET existingConnection == g.connections[e]
                      oldTargetIndex == existingConnection.target
                      g1 == NeuronRemoveConnection(g, existingConnection.source,
                                                   oldTargetIndex)
                      g2 == DeleteConnection(g1, e)
                  IN  CreateConnection(g2, neuron, otherNeuron, randomSpeed)
             ELSE g
        ELSE CreateConnection(g, neuron, otherNeuron, randomSpeed)

RECURSIVE ProximityFrom(_, _, _, _, _)
ProximityFrom(g, pos, neuron, otherNeuron, speedOf) ==
    IF otherNeuron >= numCircles THEN g
    ELSE ProximityFrom(
             IF otherNeuron = neuron THEN g
             ELSE ProximityStep(g, pos, neuron, otherNeuron, speedOf[otherNeuron]),
             pos, neuron, otherNeuron + 1, speedOf)

\* checkProximityConnection(neuron); neuron = -1 is null.  speedOf gives the
\* Math.random() speed of the connection created for each other neuron.
CheckProximityConnection(g, pos, neuron, speedOf) ==
    IF neuron \notin Circles THEN g
    ELSE ProximityFrom(g, pos, neuron, 0, speedOf)

\* validateConnections: entries whose arrow is missing or detached are deleted.
RECURSIVE ValidateFrom(_, _)
ValidateFrom(g, i) ==
    IF i > Len(g.connections) THEN g
    ELSE IF ~g.connections[i].arrowParent
         THEN ValidateFrom(DeleteConnection(g, i), i)
         ELSE ValidateFrom(g, i + 1)

GraphInit ==
    /\ connections = <<>>
    /\ isDraggingArrow = FALSE
    /\ selectedConnection = NoSelection
    /\ outgoingConnections = [n \in Neurons |-> {}]
    /\ synapticWeights = [n \in Neurons |-> EmptyMap]
    /\ synapticSpeeds = [n \in Neurons |-> EmptyMap]

InputInit ==
    /\ draggedNeuron = -1
    /\ velocityNonZero = FALSE
    /\ throwing = {}

\* lastOp: the last handler that read or wrote the connection Map, its
\* arguments, and what it found before it acted: for a proximity check of
\* neuron a, the other neurons with no edge to or from a (noEdge) and those
\* with an edge towards a (reverse).
Op(name, a, b) == [op |-> name, a |-> a, b |-> b, noEdge |-> {}, reverse |-> {}]

ProximityOp(name, neuron, moved) ==
    [op |-> name, a |-> neuron, b |-> moved,
     noEdge |-> {o \in Circles \ {neuron} :
                   ExistingConnection(connections, neuron, o) = 0},
     reverse |-> {o \in Circles \ {neuron} :
                   \E i \in 1 .. Len(connections) :
                       /\ connections[i].source = o
                       /\ connections[i].target = neuron}]

\* ---------------------------------------------------------- graph handlers
\* Neuron's constructor: mesh.position.y = -0.01 + id * 0.1, id = ++neuronCount
CreationHeight(n) == 100 * (n + 1) - 10

RandomSpeeds == {300, 700}      \* 0.3 + Math.random() * 0.5
PosX == {0, 3000}               \* x coordinates the meshes are put at

\* The connection object selectedConnection refers to.
Selected(g) ==
    IF g.selected[1].idx >= 1 THEN g.connections[g.selected[1].idx]
    ELSE g.selected[1].conn[1]

\* A caller of createConnection(window.circles[s], window.circles[t]).
CreateConnectionCall(s, t) ==
    /\ Len(connections) < MaxConnections
    /\ \E randomSpeed \in RandomSpeeds :
           SetGraph(CreateConnection(Graph, s, t, randomSpeed))
    /\ lastOp' = Op("createConnection", s, t)
    /\ UNCHANGED <<now, soundVars, neuronVars, numCircles, position, isDraggingArrow, inputVars>>

\* InputManager.onMouseDown on neuron n
OnMouseDown(n) ==
    /\ n \in Circles
    /\ draggedNeuron' = n
    /\ UNCHANGED <<now, soundVars, neuronVars, numCircles, position, graphVars,
                   velocityNonZero, throwing, lastOp>>

\* InputManager.onMouseMove: the dragged neuron follows the pointer to x
OnMouseMove(x) ==
    /\ draggedNeuron # -1
    /\ LET newPosition == [x |-> x, y |-> 0]
       IN  /\ velocityNonZero' = (newPosition # position[draggedNeuron])
           /\ position' = [position EXCEPT ![draggedNeuron] = newPosition]
    /\ \E speedOf \in [Circles -> RandomSpeeds] :
           SetGraph(CheckProximityConnection(Graph, position', draggedNeuron, speedOf))
    /\ lastOp' = ProximityOp("onMouseMove", draggedNeuron, draggedNeuron)
    /\ UNCHANGED <<now, soundVars, neuronVars, numCircles, isDraggingArrow, draggedNeuron, throwing>>

\* InputManager.onMouseUp: a release with velocity starts the throw tween
OnMouseUp ==
    /\ draggedNeuron # -1
    /\ throwing' = IF velocityNonZero THEN throwing \cup {draggedNeuron} ELSE throwing
    /\ draggedNeuron' = -1
    /\ velocityNonZero' = FALSE
    /\ UNCHANGED <<now, soundVars, neuronVars, numCircles, position, graphVars, lastOp>>

\* onUpdate of the throw tween of neuron n: the tween moves n, the callback
\* checks this.draggedNeuron as it is when the callback runs.
ThrowUpdate(n, x) ==
    /\ n \in throwing
    /\ position' = [position EXCEPT ![n].x = x]
    /\ \E speedOf \in [Circles -> RandomSpeeds] :
           SetGraph(CheckProximityConnection(Graph, position', draggedNeuron, speedOf))
    /\ lastOp' = ProximityOp("throwUpdate", draggedNeuron, n)
    /\ UNCHANGED <<now, soundVars, neuronVars, numCircles, isDraggingArrow, inputVars>>

ThrowComplete(n) ==
    /\ n \in throwing
    /\ throwing' = throwing \ {n}
    /\ UNCHANGED <<now, soundVars, neuronVars, numCircles, position, graphVars,
                   draggedNeuron, velocityNonZero, lastOp>>

\* ConnectionManager.handlePointerDown on the arrow of entry i (0: no arrow hit)
HandlePointerDown(i) ==
    /\ i \in 0 .. Len(connections)
    /\ IF i >= 1
       THEN /\ selectedConnection' = SelectLive(i)
            /\ isDraggingArrow' = TRUE
       ELSE IF selectedConnection # NoSelection
       THEN /\ selectedConnection' = NoSelection
            /\ isDraggingArrow' = FALSE
       ELSE UNCHANGED <<selectedConnection, isDraggingArrow>>
    /\ lastOp' = Op("handlePointerDown", i, i)
    /\ UNCHANGED <<now, soundVars, neuronVars, numCircles, position, connections,
                   outgoingConnections, synapticWeights, synapticSpeeds, inputVars>>

\* ConnectionManager.handlePointerUp
HandlePointerUp ==
    /\ isDraggingArrow
    /\ LET c == Selected(Graph)
       IN  SetGraph(NeuronUpdateConnectionSpeed(Graph, c.source, c.target, c.speed))
    /\ isDraggingArrow' = FALSE
    /\ lastOp' = Op("handlePointerUp", 0, 0)
    /\ UNCHANGED <<now, soundVars, neuronVars, numCircles, position, inputVars>>

\* ConnectionManager.handleDoubleClick on the arrow of entry i
HandleDoubleClick(i) ==
    /\ i \in 1 .. Len(connections)
    /\ ~isDraggingArrow
    /\ LET connection == connections[i]
       IN  /\ SetGraph(DeleteConnection(
                   NeuronRemoveConnection(Graph, connection.source, connection.target), i))
           /\ lastOp' = Op("handleDoubleClick", connection.source, connection.target)
    /\ UNCHANGED <<now, soundVars, neuronVars, numCircles, position, isDraggingArrow, inputVars>>

\* The 5 s validation sweep
ValidateConnections ==
    /\ SetGraph(ValidateFrom(Graph, 1))
    /\ lastOp' = Op("validateConnections", 0, 0)
    /\ UNCHANGED <<now, soundVars, neuronVars, numCircles, position, isDraggingArrow, inputVars>>

\* ------------------------------------------------------------------ Neuron
\* The neurons' state as the methods below transform it.  fired lists the
\* neurons whose fire() took effect during the handler that is running.
Net == [currentCharge |-> currentCharge, isFiring |-> isFiring,
        lastFiringTime |-> lastFiringTime, dcInput |-> dcInput,
        dcInterval |-> dcInterval, intervals |-> intervals,
        currentAnimation |-> currentAnimation,
        timeouts |-> timeouts, particleAnimations |-> particleAnimations,
        fired |-> <<>>]

SetNet(net) ==
    /\ currentCharge' = net.currentCharge
    /\ isFiring' = net.isFiring
    /\ lastFiringTime' = net.lastFiringTime
    /\ dcInput' = net.dcInput
    /\ dcInterval' = net.dcInterval
    /\ intervals' = net.intervals
    /\ currentAnimation' = net.currentAnimation
    /\ timeouts' = net.timeouts
    /\ particleAnimations' = net.particleAnimations

\* isInRefractoryPeriod()
IsInRefractoryPeriod(net, n) == now - net.lastFiringTime[n] < refractionPeriod

\* updateVisualState(): a neuron that is not firing kills currentAnimation
\* and starts a scale tween.
UpdateVisualState(net, n) ==
    IF net.isFiring[n] THEN net
    ELSE [net EXCEPT !.currentAnimation[n] = 0]

\* Duration of the firing timeline: scale up (0.15 s), then scale back (0.3 s).
timelineDuration == 150 + 300

\* this.synapticWeights.get(targetIndex) ?? 0.1, synapticSpeeds ... ?? 0.5
WeightOf(n, targetIndex) ==
    IF targetIndex \in DOMAIN synapticWeights[n] THEN synapticWeights[n][targetIndex]
    ELSE 100

SpeedOf(n, targetIndex) ==
    IF targetIndex \in DOMAIN synapticSpeeds[n] THEN synapticSpeeds[n][targetIndex]
    ELSE 500

\* The setTimeout calls of fire(), one per outgoing connection with a neuron
\* at the target index, in the Set's order.
RECURSIVE FireTimeouts(_, _, _)
FireTimeouts(net, n, targetIndex) ==
    IF targetIndex >= MaxNeurons THEN <<>>
    ELSE (IF targetIndex \in outgoingConnections[n] /\ targetIndex \in Circles
          THEN <<[source |-> n, targetIndex |-> targetIndex,
                  weight |-> WeightOf(n, targetIndex),
                  speed |-> SpeedOf(n, targetIndex),
                  at |-> now]>>
          ELSE <<>>) \o FireTimeouts(net, n, targetIndex + 1)

\* fire()
FireNoRefractoryTest(net, n) ==
    IF net.isFiring[n] THEN net
    ELSE UpdateVisualState(
             [net EXCEPT !.isFiring[n] = TRUE,
                         !.lastFiringTime[n] = now,
                         !.currentAnimation[n] = now + timelineDuration,
                         !.timeouts = @ \o FireTimeouts(net, n, 0),
                         !.fired = Append(@, n)], n)

Fire(net, n) ==
    IF net.isFiring[n] THEN net
    ELSE IF now - net.lastFiringTime[n] < refractionPeriod THEN net
    ELSE UpdateVisualState(
             [net EXCEPT !.isFiring[n] = TRUE,
                         !.lastFiringTime[n] = now,
                         !.currentAnimation[n] = now + timelineDuration,
                         !.timeouts = @ \o FireTimeouts(net, n, 0),
                         !.fired = Append(@, n)], n)

\* addCharge(amount)
AddChargeUnguarded(net, n, amount) ==
    LET charged == [net EXCEPT !.currentCharge[n] = Min(@ + amount, threshold)]
        shown == IF charged.currentCharge[n] # net.currentCharge[n]
                 THEN UpdateVisualState(charged, n) ELSE charged
    IN  IF shown.currentCharge[n] >= threshold /\ ~shown.isFiring[n]
        THEN Fire(shown, n) ELSE shown

AddChargeUnclamped(net, n, amount) ==
    IF net.isFiring[n] \/ IsInRefractoryPeriod(net, n) THEN net
    ELSE LET charged == [net EXCEPT !.currentCharge[n] = @ + amount]
             shown == IF charged.currentCharge[n] # net.currentCharge[n]
                      THEN UpdateVisualState(charged, n) ELSE charged
         IN  IF shown.currentCharge[n] >= threshold /\ ~shown.isFiring[n]
             THEN Fire(shown, n) ELSE shown

AddCharge(net, n, amount) ==
    IF net.isFiring[n] \/ IsInRefractoryPeriod(net, n) THEN net
    ELSE LET charged == [net EXCEPT !.currentCharge[n] = Min(@ + amount, threshold)]
             shown == IF charged.currentCharge[n] # net.currentCharge[n]
                      THEN UpdateVisualState(charged, n) ELSE charged
         IN  IF shown.currentCharge[n] >= threshold /\ ~shown.isFiring[n]
             THEN Fire(shown, n) ELSE shown

\* forceReset()
ForceReset(net, n) ==
    UpdateVisualState([net EXCEPT !.currentAnimation[n] = 0,
                                  !.isFiring[n] = FALSE,
                                  !.currentCharge[n] = 0,
                                  !.lastFiringTime[n] = 0], n)

\* reset()
Reset(net, n) ==
    UpdateVisualState([net EXCEPT !.currentCharge[n] = 0,
                                  !.isFiring[n] = FALSE,
                                  !.lastFiringTime[n] = 0], n)

\* Math.round(value * 100) / 100 on thousandths
RoundToHundredths(value) == ((value + 5) \div 10) * 10

\* if (this.dcInterval) { clearInterval(this.dcInterval); this.dcInterval = null }
ClearInterval(net, n) ==
    IF net.dcInterval[n] # 0
    THEN [net EXCEPT !.dcInterval[n] = 0, !.intervals[n] = @ - 1]
    ELSE net

\* this.dcInterval = setInterval(..., 50)
SetInterval(net, n) ==
    [net EXCEPT !.dcInterval[n] = now + dcTickPeriod, !.intervals[n] = @ + 1]

\* setDCInput(value)
SetDCInputAlwaysResets(net, n, value) ==
    LET dc == Max(0, RoundToHundredths(value))
        cleared == [ClearInterval(net, n) EXCEPT !.dcInput[n] = dc]
    IN  IF dc <= 0 THEN ForceReset(cleared, n)
        ELSE SetInterval(UpdateVisualState(cleared, n), n)

SetDCInputNoClear(net, n, value) ==
    LET previousDC == net.dcInput[n]
        dc == Max(0, RoundToHundredths(value))
        stored == [net EXCEPT !.dcInput[n] = dc]
    IN  IF dc <= 0 /\ previousDC <= 0 THEN ForceReset(stored, n)
        ELSE LET shown == UpdateVisualState(stored, n)
             IN  IF dc > 0 THEN SetInterval(shown, n) ELSE shown

SetDCInput(net, n, value) ==
    LET previousDC == net.dcInput[n]
        dc == Max(0, RoundToHundredths(value))
        cleared == [ClearInterval(net, n) EXCEPT !.dcInput[n] = dc]
    IN  IF dc <= 0 /\ previousDC <= 0 THEN ForceReset(cleared, n)
        ELSE LET shown == UpdateVisualState(cleared, n)
             IN  IF dc > 0 THEN SetInterval(shown, n) ELSE shown

\* cleanup(): the interval, the animation and the particles of n are stopped,
\* then reset(); the edge maps of n are cleared by the caller below.
Cleanup(net, n) ==
    LET stopped == [ClearInterval(net, n) EXCEPT
                       !.currentAnimation[n] = 0,
                       !.particleAnimations = SelectSeq(@, LAMBDA p : p.source # n)]
    IN  Reset(stopped, n)

\* The amount the DC bias adds per tick: dcInput * 0.1
DcAmount(net, n) == net.dcInput[n] \div 10

\* An interval callback that tests the state and adds nothing
DcIntervalCallbackIdle(net, n) ==
    IF ~net.isFiring[n] /\ ~IsInRefractoryPeriod(net, n)
    THEN AddCharge(net, n, 0)
    ELSE net

\* The callback of the setInterval of setDCInput
DcIntervalCallback(net, n) ==
    IF ~net.isFiring[n] /\ ~IsInRefractoryPeriod(net, n)
    THEN AddCharge(net, n, DcAmount(net, n))
    ELSE net

\* update()
UpdateNoRecovery(net, n) ==
    LET biased ==
            IF /\ ~net.isFiring[n] /\ ~IsInRefractoryPeriod(net, n)
               /\ net.dcInput[n] > 0
               /\ now - net.lastFiringTime[n] > refractionPeriod
            THEN AddCharge(net, n, DcAmount(net, n))
            ELSE net
        cleared ==
            IF biased.isFiring[n] /\ now - biased.lastFiringTime[n] >= refractionPeriod
            THEN [biased EXCEPT !.isFiring[n] = FALSE]
            ELSE biased
    IN  UpdateVisualState(cleared, n)

\* update() keeping the firing colour up to and including refractionPeriod
UpdateClearsLate(net, n) ==
    IF net.isFiring[n] /\ now - net.lastFiringTime[n] > refractionPeriod * 2
    THEN ForceReset(net, n)
    ELSE LET biased ==
                 IF /\ ~net.isFiring[n] /\ ~IsInRefractoryPeriod(net, n)
                    /\ net.dcInput[n] > 0
                    /\ now - net.lastFiringTime[n] > refractionPeriod
                 THEN AddCharge(net, n, DcAmount(net, n))
                 ELSE net
             cleared ==
                 IF biased.isFiring[n] /\ now - biased.lastFiringTime[n] > refractionPeriod
                 THEN [biased EXCEPT !.isFiring[n] = FALSE]
                 ELSE biased
         IN  UpdateVisualState(cleared, n)

Update(net, n) ==
    IF net.isFiring[n] /\ now - net.lastFiringTime[n] > refractionPeriod * 2
    THEN ForceReset(net, n)
    ELSE LET biased ==
                 IF /\ ~net.isFiring[n] /\ ~IsInRefractoryPeriod(net, n)
                    /\ net.dcInput[n] > 0
                    /\ now - net.lastFiringTime[n] > refractionPeriod
                 THEN AddCharge(net, n, DcAmount(net, n))
                 ELSE net
             cleared ==
                 IF biased.isFiring[n] /\ now - biased.lastFiringTime[n] >= refractionPeriod
                 THEN [biased EXCEPT !.isFiring[n] = FALSE]
                 ELSE biased
         IN  UpdateVisualState(cleared, n)

\* InputManager.onWheel over neuron n: delta is +0.1 (up) or -0.1
OnWheel(net, n, delta) ==
    LET raised == IF delta > 0
                  THEN [net EXCEPT !.currentCharge[n] = net.dcInput[n],
                                   !.isFiring[n] = FALSE,
                                   !.lastFiringTime[n] = 0]
                  ELSE net
        newDC == Max(0, Min(1000, net.dcInput[n] + delta))
        zeroed == IF newDC = 0
                  THEN [raised EXCEPT !.currentCharge[n] = 0,
                                      !.isFiring[n] = FALSE,
                                      !.lastFiringTime[n] = 0]
                  ELSE raised
    IN  SetDCInput(zeroed, n, newDC)

\* Travel time of a signal particle (ms): 4 - (speed - 0.1) * (4 - 0.6) / 0.8 s
TravelDuration(speed) == 4000 - ((speed - 100) * (4000 - 600)) \div 800

\* The i-th pending setTimeout callback of fire() runs.
TimeoutCallback(net, i) ==
    LET t == net.timeouts[i]
        rest == [net EXCEPT !.timeouts = SeqRemove(@, i)]
    IN  IF net.isFiring[t.source] /\ t.targetIndex \in Circles
        THEN [rest EXCEPT !.particleAnimations =
                  Append(@, [source |-> t.source, targetIndex |-> t.targetIndex,
                             weight |-> t.weight,
                             due |-> now + TravelDuration(t.speed)])]
        ELSE rest

\* An onComplete that reads the weight from synapticWeights when it runs
ParticleCompleteCurrentWeight(net, i) ==
    LET p == net.particleAnimations[i]
    IN  AddCharge([net EXCEPT !.particleAnimations = SeqRemove(@, i)],
                  p.targetIndex, WeightOf(p.source, p.targetIndex))

\* onComplete of the i-th particle tween
ParticleComplete(net, i) ==
    LET p == net.particleAnimations[i]
    IN  AddCharge([net EXCEPT !.particleAnimations = SeqRemove(@, i)],
                  p.targetIndex, p.weight)

\* onComplete of the firing timeline of neuron n
TimelineCompleteKeepsFiring(net, n) ==
    [net EXCEPT !.currentAnimation[n] = 0]

TimelineComplete(net, n) ==
    [UpdateVisualState([net EXCEPT !.isFiring[n] = FALSE,
                                   !.currentCharge[n] = 0], n)
        EXCEPT !.currentAnimation[n] = 0]

NeuronInit ==
    /\ creationTimeouts = <<>>
    /\ currentCharge = [n \in Neurons |-> 0]
    /\ isFiring = [n \in Neurons |-> FALSE]
    /\ lastFiringTime = [n \in Neurons |-> 0]
    /\ dcInput = [n \in Neurons |-> 0]
    /\ dcInterval = [n \in Neurons |-> 0]
    /\ intervals = [n \in Neurons |-> 0]
    /\ currentAnimation = [n \in Neurons |-> 0]
    /\ timeouts = <<>>
    /\ particleAnimations = <<>>
    /\ calls = 0
    /\ fireTimes = [n \in Neurons |-> <<>>]
    /\ lastCall = <<>>

\* ------------------------------------------------- SpecSound / SpecMelody
\* The sound manager under arbitrary firing requests.
SoundIds == 0 .. 2
MelodyIds == 1 .. 6
RequestDistances == {0, 10000}

PlayRequest(ids, isos, dcs, ds) ==
    \E requester \in ids, iso \in isos, dc \in dcs, d \in ds :
        /\ PlayNeuronFiring(500, 500, requester, iso, dc, d)
        /\ UNCHANGED <<now, otherVars>>

SoundRequest == PlayRequest(SoundIds, BOOLEAN, BOOLEAN, RequestDistances)

MelodyRequest == PlayRequest(MelodyIds, {FALSE}, {FALSE}, {0})

Advance(d, limit) ==
    /\ now + d <= limit
    /\ now' = now + d

SoundTick ==
    /\ Advance(TimeStep, MaxSoundTicks * TimeStep)
    /\ UNCHANGED <<soundVars, otherVars>>

MelodyTick ==
    /\ Advance(minTimeBetweenNotes, MaxMelodyTicks * minTimeBetweenNotes)
    /\ UNCHANGED <<soundVars, otherVars>>

\* No neuron has been created yet.
NoCircles ==
    /\ numCircles = 0
    /\ position = [n \in Neurons |-> [x |-> 0, y |-> 0]]
    /\ lastOp = Op("init", 0, 0)

\* Sound ids of neurons whose id plays no part.
DefaultIds == id = [n \in Neurons |-> n]

SoundSpecInit ==
    /\ now = 0
    /\ SoundInit /\ NoCircles /\ GraphInit /\ InputInit
    /\ NeuronInit /\ DefaultIds

SoundNext == SoundRequest \/ SoundTick

MelodyNext == MelodyRequest \/ MelodyTick

SpecSound == SoundSpecInit /\ [][SoundNext]_vars

SpecMelody == SoundSpecInit /\ [][MelodyNext]_vars

\* The callers of playNeuronFiring with every kind of argument: weights and
\* speeds below, inside and above 0.2 .. 0.8, distances on both sides of 3.
AudioWeights == {0, 500, 1000}
AudioSpeeds == {100, 500, 900}
AudioDistances == {0, 2000, 10000}
AudioIds == {1}

AudioRequest ==
    \E weight \in AudioWeights, speed \in AudioSpeeds, requester \in AudioIds,
       iso \in BOOLEAN, dc \in BOOLEAN, d \in AudioDistances :
        /\ PlayNeuronFiring(weight, speed, requester, iso, dc, d)
        /\ UNCHANGED <<now, otherVars>>

AudioNext == AudioRequest \/ MelodyTick

SpecAudio == SoundSpecInit /\ [][AudioNext]_vars

\* ---------------------------------------------------- fire(): sound request
RECURSIVE SqrtBetween(_, _, _)
SqrtBetween(v, lo, hi) ==
    IF lo >= hi THEN lo
    ELSE LET mid == (lo + hi + 1) \div 2
         IN  IF mid * mid <= v THEN SqrtBetween(v, mid, hi)
             ELSE SqrtBetween(v, lo, mid - 1)

\* position.distanceTo(other position), rounded down to a thousandth
Distance(pos, a, b) ==
    LET dx == pos[a].x - pos[b].x
        dy == pos[a].y - pos[b].y
        sq == dx * dx + dy * dy
    IN  SqrtBetween(sq, 0, Min(sq, 40000))

RECURSIVE SumOver(_, _)
SumOver(f, S) ==
    IF S = {} THEN 0
    ELSE LET x == CHOOSE y \in S : TRUE IN f[x] + SumOver(f, S \ {x})

\* The arguments fire() hands to playNeuronFiring for neuron n.
FireStatsOneFallback(n) ==
    LET targets == outgoingConnections[n] \cap Circles
        connectionCount == Cardinality(targets)
        w == [t \in targets |-> WeightOf(n, t)]
        s == [t \in targets |-> SpeedOf(n, t)]
        d == [t \in targets |-> Distance(position, n, t)]
    IN  IF connectionCount = 0
        THEN [avgWeight |-> 150, avgSpeed |-> 200, avgDistance |-> 0, isolated |-> TRUE]
        ELSE [avgWeight |-> SumOver(w, targets) \div connectionCount,
              avgSpeed |-> SumOver(s, targets) \div connectionCount,
              avgDistance |-> SumOver(d, targets) \div connectionCount,
              isolated |-> FALSE]

FireStats(n) ==
    LET targets == outgoingConnections[n] \cap Circles
        connectionCount == Cardinality(targets)
        w == [t \in targets |-> WeightOf(n, t)]
        s == [t \in targets |-> SpeedOf(n, t)]
        d == [t \in targets |-> Distance(position, n, t)]
    IN  IF connectionCount = 0
        THEN IF dcInput[n] > 0
             THEN [avgWeight |-> 300, avgSpeed |-> 900, avgDistance |-> 0, isolated |-> TRUE]
             ELSE [avgWeight |-> 150, avgSpeed |-> 200, avgDistance |-> 0, isolated |-> TRUE]
        ELSE [avgWeight |-> SumOver(w, targets) \div connectionCount,
              avgSpeed |-> SumOver(s, targets) \div connectionCount,
              avgDistance |-> SumOver(d, targets) \div connectionCount,
              isolated |-> FALSE]

\* The call window.soundManager.playNeuronFiring(...) of fire() on neuron n.
FireArguments(n) ==
    LET st == FireStats(n)
    IN  [weight |-> st.avgWeight, speed |-> st.avgSpeed, neuronId |-> id[n],
         isIsolated |-> st.isolated, hasDC |-> dcInput[n] > 0,
         distance |-> st.avgDistance, neuron |-> n]

FireRequest(n) ==
    \E a \in {FireArguments(n)} :
        PlayNeuronFiring(a.weight, a.speed, a.neuronId, a.isIsolated, a.hasDC,
                         a.distance)

\* ------------------------------------------------------ neuron handlers
\* What a call on neuron n can see of it.
Snapshot(net, n) ==
    [currentCharge |-> net.currentCharge[n], isFiring |-> net.isFiring[n],
     lastFiringTime |-> net.lastFiringTime[n], dcInput |-> net.dcInput[n],
     refractory |-> IsInRefractoryPeriod(net, n)]

\* A handler that ran op on neuron n with argument arg and left the neurons
\* as result.
Handled(op, n, arg, result) ==
  \E net \in {result} :
    /\ SetNet(net)
    /\ lastCall' = <<[op |-> op, n |-> n, arg |-> arg, at |-> now,
                      pre |-> Snapshot(Net, n), post |-> Snapshot(net, n),
                      fired |-> Len(net.fired),
                      request |-> IF net.fired = <<>> THEN <<>>
                                  ELSE <<FireArguments(net.fired[1])>>]>>
    /\ IF net.fired = <<>>
       THEN UNCHANGED <<soundVars, fireTimes>>
       ELSE /\ FireRequest(net.fired[1])
            /\ fireTimes' = [m \in Neurons |->
                   LET k == Len(SelectSeq(net.fired, LAMBDA f : f = m))
                   IN  IF k = 0 THEN fireTimes[m]
                       ELSE IF k = 1 THEN LastTwo(Append(fireTimes[m], now))
                       ELSE <<now, now>>]
    /\ UNCHANGED <<now, id, creationTimeouts, numCircles, position, graphVars,
                   inputVars, lastOp>>

\* A call made by the user or by other code, counted against MaxCalls.
Called(op, n, arg, net) ==
    /\ calls < MaxCalls
    /\ calls' = calls + 1
    /\ Handled(op, n, arg, net)

\* A timer callback.
Timed(op, n, arg, net) ==
    /\ UNCHANGED calls
    /\ Handled(op, n, arg, net)

ChargeAmounts == {200, 600}          \* amounts addCharge is called with
DCValues == {-500, 0, 996, 1000, 1500}   \* values setDCInput is called with
WheelDeltas == {100, -100}           \* event.deltaY > 0 ? -0.1 : 0.1

CallAddCharge(n, amount) == Called("addCharge", n, amount, AddCharge(Net, n, amount))

CallFire(n) == Called("fire", n, 0, Fire(Net, n))

CallSetDCInput(n, value) == Called("setDCInput", n, value, SetDCInput(Net, n, value))

CallForceReset(n) == Called("forceReset", n, 0, ForceReset(Net, n))

CallReset(n) == Called("reset", n, 0, Reset(Net, n))

CallUpdate(n) == Called("update", n, 0, Update(Net, n))

WheelOnNeuron(n, delta) == Called("onWheel", n, delta, OnWheel(Net, n, delta))

\* neuron.cleanup() on neuron n
CallCleanup(n) ==
    /\ calls < MaxCalls
    /\ calls' = calls + 1
    /\ \E net \in {Cleanup(Net, n)} :
           /\ SetNet(net)
           /\ lastCall' = <<[op |-> "cleanup", n |-> n, arg |-> 0, at |-> now,
                             pre |-> Snapshot(Net, n), post |-> Snapshot(net, n),
                             fired |-> 0, request |-> <<>>]>>
    /\ outgoingConnections' = [outgoingConnections EXCEPT ![n] = {}]
    /\ synapticWeights' = [synapticWeights EXCEPT ![n] = EmptyMap]
    /\ synapticSpeeds' = [synapticSpeeds EXCEPT ![n] = EmptyMap]
    /\ UNCHANGED <<now, soundVars, fireTimes, id, creationTimeouts, numCircles,
                   position, connections, isDraggingArrow, selectedConnection,
                   inputVars, lastOp>>

\* The DC interval of neuron n fires.
DcIntervalFires(n) ==
    /\ dcInterval[n] # 0
    /\ dcInterval[n] <= now
    /\ Timed("dcInterval", n, DcAmount(Net, n),
             DcIntervalCallback([Net EXCEPT !.dcInterval[n] = @ + dcTickPeriod], n))

\* A setTimeout of fire() runs: Math.random() * 50 is less than one TimeStep.
TimeoutFires(i) ==
    /\ i \in 1 .. Len(timeouts)
    /\ Timed("timeout", timeouts[i].source, timeouts[i].targetIndex,
             TimeoutCallback(Net, i))

\* A signal particle reaches the end of its path.
ParticleArrives(i) ==
    /\ i \in 1 .. Len(particleAnimations)
    /\ particleAnimations[i].due <= now
    /\ Timed("particleComplete", particleAnimations[i].targetIndex,
             particleAnimations[i].weight, ParticleComplete(Net, i))

\* The firing timeline of neuron n completes.
TimelineCompletes(n) ==
    /\ currentAnimation[n] # 0
    /\ currentAnimation[n] <= now
    /\ Timed("timelineComplete", n, 0, TimelineComplete(Net, n))

\* Time passes once every callback that is due has run.
ClockTick ==
    /\ timeouts = <<>>
    /\ \A n \in Neurons : dcInterval[n] = 0 \/ dcInterval[n] > now
    /\ \A n \in Neurons : currentAnimation[n] = 0 \/ currentAnimation[n] > now
    /\ \A i \in 1 .. Len(particleAnimations) : particleAnimations[i].due > now
    /\ Advance(TimeStep, MaxTicks * TimeStep)
    /\ lastCall' = <<>>
    /\ UNCHANGED <<soundVars, numCircles, position, graphVars, inputVars, lastOp,
                   id, creationTimeouts, currentCharge, isFiring, lastFiringTime, dcInput, dcInterval,
                   intervals, currentAnimation, timeouts, particleAnimations, calls,
                   fireTimes>>

\* --------------------------------------------------------------------- Spec
\* The neurons at rest in a row, 3 units apart; neuron 0 is connected to neuron 1 and
\* the speed of the connection was set to 1.0 with the GUI slider.
sliderMaxSpeed == 1000

SpecInit ==
    /\ now = 0
    /\ SoundInit
    /\ numCircles = MaxNeurons
    /\ position = [n \in Neurons |-> [x |-> 3000 * n, y |-> CreationHeight(n)]]
    /\ lastOp = Op("init", 0, 0)
    /\ InputInit
    /\ isDraggingArrow = FALSE
    /\ selectedConnection = NoSelection
    /\ connections = <<[source |-> 0, target |-> 1, weight |-> defaultWeight,
                        speed |-> sliderMaxSpeed, arrowParent |-> TRUE]>>
    /\ outgoingConnections = [n \in Neurons |-> IF n = 0 THEN {1} ELSE {}]
    /\ synapticWeights = [n \in Neurons |-> IF n = 0 THEN Put(EmptyMap, 1, defaultWeight)
                                            ELSE EmptyMap]
    /\ synapticSpeeds = [n \in Neurons |-> IF n = 0 THEN Put(EmptyMap, 1, sliderMaxSpeed)
                                           ELSE EmptyMap]
    /\ NeuronInit
    /\ DefaultIds

Next ==
    \/ \E n \in Neurons, amount \in ChargeAmounts : CallAddCharge(n, amount)
    \/ \E n \in Neurons : CallFire(n)
    \/ \E n \in Neurons, value \in DCValues : CallSetDCInput(n, value)
    \/ \E n \in Neurons : CallForceReset(n)
    \/ \E n \in Neurons : CallReset(n)
    \/ \E n \in Neurons : CallUpdate(n)
    \/ \E n \in Neurons, delta \in WheelDeltas : WheelOnNeuron(n, delta)
    \/ \E n \in Neurons : CallCleanup(n)
    \/ \E n \in Neurons : DcIntervalFires(n)
    \/ \E i \in 1 .. MaxNeurons * MaxCalls : TimeoutFires(i)
    \/ \E i \in 1 .. MaxNeurons * MaxCalls : ParticleArrives(i)
    \/ \E n \in Neurons : TimelineCompletes(n)
    \/ ClockTick

Spec == SpecInit /\ [][Next]_vars

\* The event loop: a timer callback that is due runs, or time passes.
EventLoop ==
    \/ ClockTick
    \/ \E n \in Neurons : TimelineCompletes(n)
    \/ \E n \in Neurons : DcIntervalFires(n)
    \/ \E i \in 1 .. MaxNeurons * MaxCalls : TimeoutFires(i)
    \/ \E i \in 1 .. MaxNeurons * MaxCalls : ParticleArrives(i)

Fairness == WF_vars(EventLoop)

\* Neuron 0 firing with update() ticks, setDCInput calls and wheel events in
\* between.
LiveDCValues == {0, 1000}

LiveNext ==
    \/ CallFire(0)
    \/ CallUpdate(0)
    \/ \E value \in LiveDCValues : CallSetDCInput(0, value)
    \/ \E delta \in WheelDeltas : WheelOnNeuron(0, delta)
    \/ EventLoop

SpecLive == SpecInit /\ [][LiveNext]_vars /\ Fairness

\* ------------------------------------------------------------- SpecCreate
\* Neurons being created, each with the sound id its constructor draws.
NeuronIdChoices == {0, 1, 4}    \* Math.floor(Math.random() * 10000)

\* createNewNeuron(position, dcInput) with dcInput null or 0, and the push
\* onto window.circles that follows it.
CreateNewNeuron(x, height, randomId) ==
    /\ numCircles < MaxNeurons
    /\ numCircles' = numCircles + 1
    /\ position' = [position EXCEPT ![numCircles] = [x |-> x, y |-> height]]
    /\ id' = [id EXCEPT ![numCircles] = randomId]
    /\ creationTimeouts' = Append(creationTimeouts,
                                  [n |-> numCircles, due |-> now + creationNoteDelay])
    /\ UNCHANGED <<now, soundVars, graphVars, inputVars, lastOp, chargeVars>>

\* window.settings.addNeuron(position): the GUI button and the start button
AddNeuron(x, randomId) == CreateNewNeuron(x, CreationHeight(numCircles), randomId)

\* InputManager.onDoubleClick on empty space at x
OnDoubleClick(x, randomId) ==
    /\ \A n \in Circles : position[n].x # x
    /\ CreateNewNeuron(x, groundHeight, randomId)

\* The note createNewNeuron plays 100 ms after the creation
CreationNoteFires(i) ==
    /\ i \in 1 .. Len(creationTimeouts)
    /\ creationTimeouts[i].due <= now
    /\ PlayNeuronFiring(500, 700, id[creationTimeouts[i].n], TRUE, FALSE, 0)
    /\ creationTimeouts' = SeqRemove(creationTimeouts, i)
    /\ UNCHANGED <<now, id, numCircles, position, graphVars, inputVars, lastOp,
                   chargeVars>>

CreateTick ==
    /\ \A i \in 1 .. Len(creationTimeouts) : creationTimeouts[i].due > now
    /\ Advance(TimeStep, MaxSoundTicks * TimeStep)
    /\ UNCHANGED <<soundVars, otherVars>>

CreateInit ==
    /\ now = 0
    /\ SoundInit /\ NoCircles /\ GraphInit /\ InputInit /\ NeuronInit
    /\ id = [n \in Neurons |-> 0]

CreateNext ==
    \/ \E x \in PosX, r \in NeuronIdChoices : AddNeuron(x, r)
    \/ \E x \in PosX, r \in NeuronIdChoices : OnDoubleClick(x, r)
    \/ \E i \in 1 .. MaxNeurons : CreationNoteFires(i)
    \/ CreateTick

SpecCreate == CreateInit /\ [][CreateNext]_vars

\* -------------------------------------------------------------- SpecGraph
\* The connection graph under its handlers.  All neurons have been created
\* (createNewNeuron puts neuron k at height 0.1 * k - 0.01) and no edge yet.
GraphSpecInit ==
    /\ now = 0
    /\ SoundInit
    /\ numCircles = MaxNeurons
    /\ \E xs \in [Neurons -> PosX] :
           position = [n \in Neurons |-> [x |-> xs[n], y |-> CreationHeight(n)]]
    /\ lastOp = Op("init", 0, 0)
    /\ GraphInit
    /\ InputInit
    /\ NeuronInit /\ DefaultIds

GraphNext ==
    \/ \E s, t \in 0 .. MaxNeurons : CreateConnectionCall(s, t)
    \/ \E n \in Neurons : OnMouseDown(n)
    \/ \E x \in PosX : OnMouseMove(x)
    \/ OnMouseUp
    \/ \E i \in 1 .. MaxConnections : HandleDoubleClick(i)
    \/ ValidateConnections

SpecGraph == GraphSpecInit /\ [][GraphNext]_vars

\* -------------------------------------------------------------- SpecStats
\* Neurons firing with every kind of outgoing edges: neuron 0 with none, with
\* one edge to neuron 1, and with a second edge (to itself); weights and speeds
\* as the arrow drag and the GUI sliders set them.  Neuron 1 has no edge.
WithEdge(g, s, t, weight, speed) ==
    [g EXCEPT !.connections = Append(@, [source |-> s, target |-> t, weight |-> weight,
                                         speed |-> speed, arrowParent |-> TRUE]),
              !.outgoing[s] = @ \cup {t},
              !.weights[s] = Put(@, t, weight),
              !.speeds[s] = Put(@, t, speed)]

NoEdges == [connections |-> <<>>, selected |-> NoSelection,
            outgoing |-> [n \in Neurons |-> {}],
            weights |-> [n \in Neurons |-> EmptyMap],
            speeds |-> [n \in Neurons |-> EmptyMap]]

StatsGraphs ==
    LET first == {NoEdges, WithEdge(NoEdges, 0, 0, defaultWeight, 300)}
    IN  first \cup {WithEdge(g, 0, 1, w, sliderMaxSpeed) : g \in first, w \in {defaultWeight, 600}}

StatsInit ==
    /\ now = 0
    /\ SoundInit
    /\ numCircles = MaxNeurons
    /\ position = [n \in Neurons |-> [x |-> 3000 * n, y |-> CreationHeight(n)]]
    /\ lastOp = Op("init", 0, 0)
    /\ InputInit
    /\ isDraggingArrow = FALSE
    /\ \E g \in StatsGraphs :
           /\ connections = g.connections
           /\ selectedConnection = g.selected
           /\ outgoingConnections = g.outgoing
           /\ synapticWeights = g.weights
           /\ synapticSpeeds = g.speeds
    /\ NeuronInit
    /\ DefaultIds

StatsNext ==
    \/ \E n \in Neurons : CallFire(n)
    \/ \E n \in Neurons, value \in LiveDCValues : CallSetDCInput(n, value)
    \/ EventLoop

SpecStats == StatsInit /\ [][StatsNext]_vars

\* -------------------------------------------------------------- SpecSpeed
\* The edge 0->1 is selected and the user moves the GUI's speed slider while
\* the neurons fire.
SliderSpeeds == {0, 500, 1000}     \* gui.add(settings, 'selectedSpeed', 0, 1, 0.01)

\* updateConnectionProperties(undefined, speed)
UpdateConnectionProperties(speed) ==
    /\ selectedConnection # NoSelection
    /\ LET c == Selected(Graph)
           stored == IF selectedConnection[1].idx >= 1
                     THEN [Graph EXCEPT !.connections[selectedConnection[1].idx].speed = speed]
                     ELSE [Graph EXCEPT !.selected = SelectDetached([c EXCEPT !.speed = speed])]
       IN  /\ SetGraph(NeuronUpdateConnectionSpeed(stored, c.source, c.target, speed))
           /\ lastOp' = Op("updateConnectionProperties", c.source, c.target)
    /\ UNCHANGED <<now, soundVars, neuronVars, numCircles, position, isDraggingArrow,
                   inputVars>>

SpeedInit ==
    /\ now = 0
    /\ SoundInit
    /\ numCircles = MaxNeurons
    /\ position = [n \in Neurons |-> [x |-> 3000 * n, y |-> CreationHeight(n)]]
    /\ lastOp = Op("init", 0, 0)
    /\ InputInit
    /\ isDraggingArrow = FALSE
    /\ \E randomSpeed \in RandomSpeeds :
           LET g == WithEdge(NoEdges, 0, 1, defaultWeight, randomSpeed)
           IN  /\ connections = g.connections
               /\ selectedConnection = SelectLive(1)
               /\ outgoingConnections = g.outgoing
               /\ synapticWeights = g.weights
               /\ synapticSpeeds = g.speeds
    /\ NeuronInit
    /\ DefaultIds

SpeedNext ==
    \/ \E speed \in SliderSpeeds : UpdateConnectionProperties(speed)
    \/ \E n \in Neurons : CallFire(n)
    \/ \E i \in 1 .. MaxNeurons * MaxCalls : TimeoutFires(i)
    \/ \E i \in 1 .. MaxNeurons * MaxCalls : ParticleArrives(i)
    \/ \E n \in Neurons : TimelineCompletes(n)
    \/ ClockTick

SpecSpeed == SpeedInit /\ [][SpeedNext]_vars

\* --------------------------------------------------------------- SpecEdit
\* The user edits the edges of the initial network: wheel on an arrow, arrow
\* drag, the GUI's and the mobile panel's sliders, new edges, removed edges and
\* a neuron dragged next to the other one.
SliderWeights == {0, 1000}         \* gui.add(settings, 'selectedWeight', 0, 1, 0.01)
RawPercentages == {-500, 500, 1500}    \* pointer projected on the edge, source = 0, target = 1
NaN == -1                          \* 0 / 0
neuronBaseScale == 200             \* Neuron.baseScale

\* this.selectedConnection.<field> = value
SelectedSet(g, field, value) ==
    IF g.selected[1].idx >= 1
    THEN [g EXCEPT !.connections[g.selected[1].idx][field] = value]
    ELSE [g EXCEPT !.selected = SelectDetached([Selected(g) EXCEPT ![field] = value])]

\* calculateDragPosition without its Math.max / Math.min
CalculateDragPositionUnclamped(c, rawPercentage) ==
    LET MIN_VISUAL == neuronBaseScale + (dcInput[c.source] * 200) \div 1000
        MAX_VISUAL == 1000 - (neuronBaseScale + (dcInput[c.target] * 200) \div 1000)
    IN  IF MAX_VISUAL = MIN_VISUAL THEN NaN
        ELSE ((rawPercentage - MIN_VISUAL) * 1000) \div (MAX_VISUAL - MIN_VISUAL)

\* calculateDragPosition(...).normalizedSpeed for the selected connection c
CalculateDragPosition(c, rawPercentage) ==
    LET sourceGrowth == neuronBaseScale + (dcInput[c.source] * 200) \div 1000
        targetGrowth == neuronBaseScale + (dcInput[c.target] * 200) \div 1000
        MIN_VISUAL == sourceGrowth
        MAX_VISUAL == 1000 - targetGrowth
        clamped == Max(MIN_VISUAL, Min(MAX_VISUAL, rawPercentage))
    IN  IF MAX_VISUAL = MIN_VISUAL THEN NaN
        ELSE Max(0, Min(1000, ((clamped - MIN_VISUAL) * 1000) \div (MAX_VISUAL - MIN_VISUAL)))

\* handlePointerMove while an arrow is dragged
HandlePointerMove(rawPercentage) ==
    /\ isDraggingArrow
    /\ selectedConnection # NoSelection
    /\ LET c == Selected(Graph)
           normalizedSpeed == CalculateDragPosition(c, rawPercentage)
       IN  /\ SetGraph(NeuronUpdateConnectionSpeed(
                   SelectedSet(Graph, "speed", normalizedSpeed),
                   c.source, c.target, normalizedSpeed))
           /\ lastOp' = Op("handlePointerMove", c.source, c.target)
    /\ UNCHANGED <<now, soundVars, neuronVars, numCircles, position, isDraggingArrow,
                   inputVars>>

\* handleWheel on the arrow of entry i
HandleWheel(i, delta) ==
    /\ ~isDraggingArrow
    /\ i \in 1 .. Len(connections)
    /\ LET connection == connections[i]
           newWeight == Max(0, Min(1000, connection.weight + delta))
       IN  /\ SetGraph(NeuronUpdateConnectionWeight(
                   [Graph EXCEPT !.connections[i].weight = newWeight],
                   connection.source, connection.target, newWeight))
           /\ lastOp' = Op("handleWheel", connection.source, connection.target)
    /\ UNCHANGED <<now, soundVars, neuronVars, numCircles, position, isDraggingArrow,
                   inputVars>>

\* updateConnectionProperties(weight)
UpdateConnectionPropertiesWeight(weight) ==
    /\ selectedConnection # NoSelection
    /\ LET c == Selected(Graph)
       IN  /\ SetGraph(NeuronUpdateConnectionWeight(
                   SelectedSet(Graph, "weight", weight), c.source, c.target, weight))
           /\ lastOp' = Op("updateConnectionProperties", c.source, c.target)
    /\ UNCHANGED <<now, soundVars, neuronVars, numCircles, position, isDraggingArrow,
                   inputVars>>

\* ConnectionManager.updateConnectionWeight(value) of the mobile panel
UpdateConnectionWeight(value) ==
    /\ selectedConnection # NoSelection
    /\ LET c == Selected(Graph)
       IN  /\ SetGraph(NeuronUpdateConnectionWeight(
                   SelectedSet(Graph, "weight", value), c.source, c.target, value))
           /\ lastOp' = Op("updateConnectionWeight", c.source, c.target)
    /\ UNCHANGED <<now, soundVars, neuronVars, numCircles, position, isDraggingArrow,
                   inputVars>>

\* ConnectionManager.updateConnectionSpeed(value) of the mobile panel
UpdateConnectionSpeed(value) ==
    /\ selectedConnection # NoSelection
    /\ LET c == Selected(Graph)
       IN  /\ SetGraph(NeuronUpdateConnectionSpeed(
                   SelectedSet(Graph, "speed", value), c.source, c.target, value))
           /\ lastOp' = Op("updateConnectionSpeed", c.source, c.target)
    /\ UNCHANGED <<now, soundVars, neuronVars, numCircles, position, isDraggingArrow,
                   inputVars>>

\* setupInitialNetwork: the edge 0->1 with weight 0.2 and speed 0.5
EditInit ==
    /\ now = 0
    /\ SoundInit
    /\ numCircles = MaxNeurons
    /\ position = [n \in Neurons |-> [x |-> 3000 * n, y |-> CreationHeight(n)]]
    /\ lastOp = Op("init", 0, 0)
    /\ InputInit
    /\ isDraggingArrow = FALSE
    /\ selectedConnection = NoSelection
    /\ LET g == WithEdge(NoEdges, 0, 1, defaultWeight, 500)
       IN  /\ connections = g.connections
           /\ outgoingConnections = g.outgoing
           /\ synapticWeights = g.weights
           /\ synapticSpeeds = g.speeds
    /\ NeuronInit
    /\ DefaultIds

EditNext ==
    \/ \E s, t \in Circles : s # t /\ CreateConnectionCall(s, t)
    \/ \E i \in 0 .. MaxConnections : HandlePointerDown(i)
    \/ \E rawPercentage \in RawPercentages : HandlePointerMove(rawPercentage)
    \/ HandlePointerUp
    \/ \E i \in 1 .. MaxConnections, delta \in WheelDeltas : HandleWheel(i, delta)
    \/ \E speed \in SliderSpeeds : UpdateConnectionProperties(speed)
    \/ \E weight \in SliderWeights : UpdateConnectionPropertiesWeight(weight)
    \/ \E value \in SliderWeights : UpdateConnectionWeight(value)
    \/ \E value \in SliderSpeeds : UpdateConnectionSpeed(value)
    \/ CallSetDCInput(1, 1000)

SpecEdit == EditInit /\ [][EditNext]_vars

\* ------------------------------------------------------------- SpecSelect
\* The user selects the arrow of the initial edge, edits it, removes it with a
\* double click and drags neurons next to each other; every new edge comes
\* from the proximity check, and the wheel only lowers weights.
SelectNext ==
    \/ \E i \in 0 .. MaxConnections : HandlePointerDown(i)
    \/ \E rawPercentage \in RawPercentages : HandlePointerMove(rawPercentage)
    \/ HandlePointerUp
    \/ \E i \in 1 .. MaxConnections : HandleWheel(i, -100)
    \/ \E speed \in SliderSpeeds : UpdateConnectionProperties(speed)
    \/ \E weight \in SliderWeights : UpdateConnectionPropertiesWeight(weight)
    \/ \E i \in 1 .. MaxConnections : HandleDoubleClick(i)
    \/ \E n \in Neurons : OnMouseDown(n)
    \/ \E x \in PosX : OnMouseMove(x)

SpecSelect == EditInit /\ [][SelectNext]_vars

\* ----------------------------------------------------------- SpecTransfer
\* An edge is selected, its weight and speed are edited, and neurons are
\* dragged next to each other.
TransferNext ==
    \/ \E i \in 0 .. MaxConnections : HandlePointerDown(i)
    \/ HandlePointerUp
    \/ \E i \in 1 .. MaxConnections : HandleWheel(i, -100)
    \/ \E speed \in SliderSpeeds : UpdateConnectionProperties(speed)
    \/ \E n \in Neurons : OnMouseDown(n)
    \/ \E x \in PosX : OnMouseMove(x)

SpecTransfer == EditInit /\ [][TransferNext]_vars

\* ---------------------------------------------------------- SpecProximity
\* Neurons dragged and thrown over a graph that starts with at most one edge
\* between the two neurons.
ProximityGraphs ==
    {NoEdges, WithEdge(NoEdges, 0, 1, defaultWeight, 500),
     WithEdge(NoEdges, 1, 0, defaultWeight, 500)}

ProximityInit ==
    /\ now = 0
    /\ SoundInit
    /\ numCircles = MaxNeurons
    /\ \E xs \in [Neurons -> PosX] :
           position = [n \in Neurons |-> [x |-> xs[n], y |-> CreationHeight(n)]]
    /\ lastOp = Op("init", 0, 0)
    /\ isDraggingArrow = FALSE
    /\ selectedConnection = NoSelection
    /\ \E g \in ProximityGraphs :
           /\ connections = g.connections
           /\ outgoingConnections = g.outgoing
           /\ synapticWeights = g.weights
           /\ synapticSpeeds = g.speeds
    /\ InputInit
    /\ NeuronInit /\ DefaultIds

ProximityNext ==
    \/ \E n \in Neurons : OnMouseDown(n)
    \/ \E x \in PosX : OnMouseMove(x)
    \/ OnMouseUp
    \/ \E n \in Neurons, x \in PosX : ThrowUpdate(n, x)
    \/ \E n \in Neurons : ThrowComplete(n)

SpecProximity == ProximityInit /\ [][ProximityNext]_vars

\* --------------------------------------------------------------- SpecBias
\* Neuron 0 with no edge, driven by its DC bias alone for MaxBiasTicks ticks;
\* setDCInput and fire() are called on it at any moment.
MaxBiasTicks == 32

\* Time passes once every callback that is due has run.
BiasTick ==
    /\ timeouts = <<>>
    /\ \A n \in Neurons : dcInterval[n] = 0 \/ dcInterval[n] > now
    /\ \A n \in Neurons : currentAnimation[n] = 0 \/ currentAnimation[n] > now
    /\ Advance(TimeStep, MaxBiasTicks * TimeStep)
    /\ lastCall' = <<>>
    /\ UNCHANGED <<soundVars, numCircles, position, graphVars, inputVars, lastOp,
                   id, creationTimeouts, currentCharge, isFiring, lastFiringTime, dcInput,
                   dcInterval, intervals, currentAnimation, timeouts, particleAnimations,
                   calls, fireTimes>>

BiasInit ==
    /\ now = 0
    /\ SoundInit
    /\ numCircles = MaxNeurons
    /\ position = [n \in Neurons |-> [x |-> 3000 * n, y |-> CreationHeight(n)]]
    /\ lastOp = Op("init", 0, 0)
    /\ GraphInit
    /\ InputInit
    /\ NeuronInit
    /\ DefaultIds

\* The bias interval, the firing timeline and the passing of time.
BiasEventLoop ==
    \/ DcIntervalFires(0)
    \/ TimelineCompletes(0)
    \/ BiasTick

BiasNext ==
    \/ \E value \in LiveDCValues : CallSetDCInput(0, value)
    \/ CallFire(0)
    \/ BiasEventLoop

SpecBias == BiasInit /\ [][BiasNext]_vars /\ WF_vars(BiasEventLoop)

\* ----------------------------------------------------------- SpecDelivery
\* The neurons of the edge 0->1 fire while the wheel changes the edge's weight.
DeliveryNext ==
    \/ \E n \in Neurons : CallFire(n)
    \/ \E i \in 1 .. MaxConnections, delta \in WheelDeltas : HandleWheel(i, delta)
    \/ \E i \in 1 .. MaxNeurons * MaxCalls : TimeoutFires(i)
    \/ \E i \in 1 .. MaxNeurons * MaxCalls : ParticleArrives(i)
    \/ \E n \in Neurons : TimelineCompletes(n)
    \/ ClockTick

SpecDelivery == SpecInit /\ [][DeliveryNext]_vars

\* -------------------------------------------------------------- SpecSweep
\* The validation sweep of the constructor's setInterval running while neurons
\* of the edge 0->1 fire and are disposed of with cleanup().
SweepNext ==
    \/ ValidateConnections
    \/ \E n \in Neurons : CallCleanup(n)
    \/ \E n \in Neurons : CallFire(n)
    \/ \E i \in 1 .. MaxNeurons * MaxCalls : TimeoutFires(i)
    \/ \E i \in 1 .. MaxNeurons * MaxCalls : ParticleArrives(i)
    \/ \E n \in Neurons : TimelineCompletes(n)
    \/ ClockTick

SpecSweep == SpecInit /\ [][SweepNext]_vars

\* ------------------------------------------------------------ SpecRemoval
\* Neurons that fire over the edge 0->1 while the user removes the edge, by a
\* double click on its arrow or by dragging neuron 1 next to neuron 0.
RemovalNext ==
    \/ \E n \in Neurons : CallFire(n)
    \/ \E i \in 1 .. MaxNeurons * MaxCalls : TimeoutFires(i)
    \/ \E i \in 1 .. MaxNeurons * MaxCalls : ParticleArrives(i)
    \/ \E n \in Neurons : TimelineCompletes(n)
    \/ ClockTick
    \/ \E i \in 1 .. MaxConnections : HandleDoubleClick(i)
    \/ OnMouseDown(1)
    \/ \E x \in PosX : OnMouseMove(x)

SpecRemoval == SpecInit /\ [][RemovalNext]_vars

\* ------------------------------------------------------------------ claims

\* C1: every neuron's charge stays within 0 .. threshold.
C1_ChargeBounds ==
    \A n \in Circles : 0 <= currentCharge[n] /\ currentCharge[n] <= threshold

\* C2: two consecutive firings of a neuron are at least refractionPeriod
\* apart.
C2_RefractoryGap ==
    \A n \in Circles :
        Len(fireTimes[n]) = 2 => fireTimes[n][2] - fireTimes[n][1] >= refractionPeriod

\* The calls that run addCharge(arg) on neuron n whatever its state.
IsAddCharge(c) == c.op \in {"addCharge", "particleComplete"}

\* C3: addCharge on a neuron that is firing or refractory changes neither
\* its charge, nor isFiring, nor lastFiringTime, and does not fire it.
C3_AddChargeNoOp ==
    \A k \in 1 .. Len(lastCall) :
        LET c == lastCall[k]
        IN  (IsAddCharge(c) /\ (c.pre.isFiring \/ c.pre.refractory)) =>
                /\ c.post.currentCharge = c.pre.currentCharge
                /\ c.post.isFiring = c.pre.isFiring
                /\ c.post.lastFiringTime = c.pre.lastFiringTime
                /\ c.fired = 0
                /\ currentCharge[c.n] = c.pre.currentCharge

\* A signal particle reached a neuron that was firing and its weight was
\* not added.
C3_Witness ==
    /\ lastCall # <<>>
    /\ lastCall[1].op = "particleComplete"
    /\ lastCall[1].arg = defaultWeight
    /\ lastCall[1].pre.isFiring
    /\ lastCall[1].post = lastCall[1].pre

\* C4: addCharge on a neuron that is neither firing nor refractory, with
\* charge + amount at or above threshold, leaves the charge at exactly
\* threshold and fires the neuron exactly once.
C4_ThresholdCrossing ==
    \A k \in 1 .. Len(lastCall) :
        LET c == lastCall[k]
        IN  (/\ IsAddCharge(c)
             /\ ~c.pre.isFiring /\ ~c.pre.refractory
             /\ c.pre.currentCharge + c.arg >= threshold) =>
                /\ c.post.currentCharge = threshold
                /\ c.fired = 1
                /\ c.post.isFiring
                /\ c.post.lastFiringTime = c.at
                /\ fireTimes[c.n][Len(fireTimes[c.n])] = c.at

\* addCharge(0.6) on a neuron charged to 0.6 left it at 1.0 and firing.
C4_Witness ==
    /\ lastCall # <<>>
    /\ lastCall[1].op = "addCharge"
    /\ lastCall[1].arg = 600
    /\ lastCall[1].pre.currentCharge = 600
    /\ ~lastCall[1].pre.isFiring
    /\ lastCall[1].post.currentCharge = threshold
    /\ lastCall[1].post.isFiring
    /\ lastCall[1].fired = 1
    /\ fireTimes[lastCall[1].n] = <<now>>

\* The entries of the connection Map that run from s to t.
EdgesFromTo(s, t) ==
    {i \in 1 .. Len(connections) :
        connections[i].source = s /\ connections[i].target = t}

\* The entries that join a and b in either direction.
EdgesBetween(a, b) == EdgesFromTo(a, b) \cup EdgesFromTo(b, a)

\* C5: createConnection is idempotent: after createConnection(a,b) the Map
\* holds exactly one entry a->b, and it never holds more than one entry for
\* any (source,target) pair.
C5_CreateConnectionIdempotent ==
    /\ \A s, t \in Circles : Cardinality(EdgesFromTo(s, t)) <= 1
    /\ (lastOp.op = "createConnection" /\ lastOp.a \in Circles /\ lastOp.b \in Circles)
           => Cardinality(EdgesFromTo(lastOp.a, lastOp.b)) = 1

\* C6: the connection Map and the neurons' outgoing maps agree: an entry
\* s->t is in the Map if and only if t is in s's outgoingConnections, with
\* an entry in synapticWeights and in synapticSpeeds.
C6_EdgeSetMatchesOutgoing ==
    \A s, t \in Circles :
        /\ (EdgesFromTo(s, t) # {}) <=> (t \in outgoingConnections[s])
        /\ t \in outgoingConnections[s] =>
               /\ t \in DOMAIN synapticWeights[s]
               /\ t \in DOMAIN synapticSpeeds[s]

\* C7: when checkProximityConnection(A) runs with B nearer than 0.5 and no
\* entry joins A and B in either direction, it leaves exactly one entry
\* between them, from the mover A to B, and B in A's outgoing maps.
C7_ProximityCreation ==
    lastOp.op = "onMouseMove" =>
        \A b \in lastOp.noEdge :
            Near(position, lastOp.a, b) =>
                /\ Cardinality(EdgesBetween(lastOp.a, b)) = 1
                /\ Cardinality(EdgesFromTo(lastOp.a, b)) = 1
                /\ b \in outgoingConnections[lastOp.a]
                /\ synapticWeights[lastOp.a][b] = defaultWeight
                /\ synapticSpeeds[lastOp.a][b] \in RandomSpeeds

\* Neuron 0 was dragged next to neuron 1 with no entry between them, and
\* the Map now holds the entry 0->1.
C7_Witness ==
    /\ lastOp.op = "onMouseMove"
    /\ lastOp.a = 0
    /\ 1 \in lastOp.noEdge
    /\ Near(position, 0, 1)
    /\ position[0] # position[1]
    /\ Cardinality(EdgesFromTo(0, 1)) = 1
    /\ EdgesFromTo(1, 0) = {}

\* C8: when the proximity check runs for mover A with B nearer than 0.5 and
\* an entry B->A in the Map, it leaves exactly one entry between the pair,
\* A->B, and A is no longer in B's outgoing maps.
C8_ConflictTransfer ==
    lastOp.op = "onMouseMove" =>
        \A b \in lastOp.reverse :
            Near(position, lastOp.a, b) =>
                /\ Cardinality(EdgesBetween(lastOp.a, b)) = 1
                /\ Cardinality(EdgesFromTo(lastOp.a, b)) = 1
                /\ EdgesFromTo(b, lastOp.a) = {}
                /\ lastOp.a \notin outgoingConnections[b]
                /\ lastOp.a \notin DOMAIN synapticWeights[b]
                /\ lastOp.a \notin DOMAIN synapticSpeeds[b]

\* C9: rate limiting is process-wide.  Two emitted payloads are at least
\* minTimeBetweenNotes apart, whatever neurons asked for them; a request is
\* dropped exactly when it arrives less than minTimeBetweenNotes after the
\* last emitted one, and a dropped request emits nothing.
C9_RateLimit ==
    /\ Len(emitTimes) = 2 => emitTimes[2] - emitTimes[1] >= minTimeBetweenNotes
    /\ lastRequest # <<>> =>
            LET r == lastRequest[1]
                n == Len(emitTimes)
            IN  IF r.emitted
                THEN /\ n >= 1 /\ emitTimes[n] = r.at
                     /\ n = 2 => r.at - emitTimes[1] >= minTimeBetweenNotes
                ELSE /\ n >= 1
                     /\ r.at - emitTimes[n] < minTimeBetweenNotes

\* A request made 50 ms after an emitted one, by another neuron, was dropped.
C9_Witness ==
    /\ lastRequest # <<>>
    /\ ~lastRequest[1].emitted
    /\ Len(emitTimes) >= 1
    /\ lastRequest[1].at - emitTimes[Len(emitTimes)] = 50
    /\ lastRequest[1].id \notin DOMAIN neuronNotes

\* C10: the k-th neuron id to be assigned a note gets pattern index
\* melodicPattern[(k-1) mod 5], whatever range tier the id falls in.
C10_MelodicOrder ==
    \A k \in 1 .. Len(assignOrder) :
        /\ assignOrder[k] \in DOMAIN neuronNotes
        /\ neuronNotes[assignOrder[k]].noteIndex = melodicPattern[((k - 1) % 5) + 1]

\* Ids 1..6 assigned in that order got 0,2,4,3,1,0 across all three tiers.
C10_Witness ==
    /\ assignOrder = <<1, 2, 3, 4, 5, 6>>
    /\ [k \in 1 .. 6 |-> neuronNotes[k].noteIndex] = <<0, 2, 4, 3, 1, 0>>
    /\ {neuronNotes[k].range : k \in 1 .. 6} = {"mid", "high", "low"}

\* C11: a stored note descriptor has the range tier ranges[id mod 3], and no
\* step changes or removes the descriptor stored for an id.
C11_NoteAssignedOnce ==
    /\ [](\A i \in DOMAIN neuronNotes : neuronNotes[i].range = ranges[(i % 3) + 1])
    /\ [][\A i \in DOMAIN neuronNotes :
              i \in DOMAIN neuronNotes' /\ neuronNotes'[i] = neuronNotes[i]]_vars

\* Id 1 was the first to get a note, other ids got theirs after it, and a
\* later request of id 1 was emitted with its first descriptor.
C11_Witness ==
    /\ Len(assignOrder) >= 3
    /\ assignOrder[1] = 1
    /\ lastRequest # <<>>
    /\ lastRequest[1].id = 1
    /\ lastRequest[1].emitted
    /\ neuronNotes[1] = [range |-> "high", noteIndex |-> 0]
    /\ lastPayload[1].note = "A5"

\* C12: no two neurons in window.circles have the same id, and no step
\* changes the id of a neuron in window.circles.
C12_UniqueStableIds ==
    /\ [](\A a, b \in Circles : a # b => id[a] # id[b])
    /\ [][\A n \in Circles : id'[n] = id[n]]_vars

\* C13: update() on a neuron that is firing with now - lastFiringTime above
\* 2 * refractionPeriod leaves it not firing, with charge 0 and
\* lastFiringTime 0, and does nothing else: no firing, no change of dcInput.
C13_StuckStateRecovery ==
    \A k \in 1 .. Len(lastCall) :
        LET c == lastCall[k]
        IN  (/\ c.op = "update"
             /\ c.pre.isFiring
             /\ c.at - c.pre.lastFiringTime > 2 * refractionPeriod) =>
                /\ ~c.post.isFiring
                /\ c.post.currentCharge = 0
                /\ c.post.lastFiringTime = 0
                /\ c.post.dcInput = c.pre.dcInput
                /\ c.fired = 0
                /\ currentAnimation[c.n] = 0
                /\ ~isFiring[c.n] /\ currentCharge[c.n] = 0 /\ lastFiringTime[c.n] = 0

\* update() ran on a neuron that had been firing for 3 * refractionPeriod,
\* and reset it.
C13_Witness ==
    /\ lastCall # <<>>
    /\ lastCall[1].op = "update"
    /\ lastCall[1].pre.isFiring
    /\ lastCall[1].pre.lastFiringTime > 0
    /\ lastCall[1].at - lastCall[1].pre.lastFiringTime = 3 * refractionPeriod
    /\ ~lastCall[1].post.isFiring
    /\ lastCall[1].post.lastFiringTime = 0

\* C14: after setDCInput(value), whatever the value, the stored dcInput lies
\* in [0,1] and is a multiple of 0.01.
C14_DCInputClamped ==
    \A k \in 1 .. Len(lastCall) :
        LET c == lastCall[k]
        IN  c.op = "setDCInput" =>
                /\ 0 <= c.post.dcInput /\ c.post.dcInput <= 1000
                /\ c.post.dcInput % 10 = 0
                /\ dcInput[c.n] = c.post.dcInput

\* C15: createConnection(source, target) is a no-op when an endpoint is
\* missing or when source = target: the edge set and the outgoing maps stay as
\* they were, so no reachable state holds a self-loop.
C15_NoSelfLoop ==
    /\ [](/\ \A i \in 1 .. Len(connections) : connections[i].source # connections[i].target
          /\ \A n \in Circles : n \notin outgoingConnections[n])
    /\ [][(lastOp'.op = "createConnection" /\ graphVars' # graphVars) =>
              (/\ lastOp'.a \in Circles /\ lastOp'.b \in Circles
               /\ lastOp'.a # lastOp'.b)]_vars

\* C16: a signal particle that arrives changes the charge of its target only
\* if the neuron that sent it is still firing at that moment.
C16_DeliveryNeedsFiringSource ==
    [][\A i \in 1 .. Len(particleAnimations) :
           LET p == particleAnimations[i]
           IN  (/\ ParticleArrives(i)
                /\ currentCharge'[p.targetIndex] # currentCharge[p.targetIndex])
                   => isFiring[p.source]]_vars

\* C17: once the edge s->t is removed (double click or proximity transfer), a
\* particle sent over it that is still in flight does not raise t's charge
\* when it arrives.
C17_RemovedEdgeDeliversNothing ==
    [][\A i \in 1 .. Len(particleAnimations) :
           LET p == particleAnimations[i]
           IN  (/\ ParticleArrives(i)
                /\ currentCharge'[p.targetIndex] > currentCharge[p.targetIndex])
                   => EdgesFromTo(p.source, p.targetIndex) # {}]_vars

\* C18: a neuron that stops firing because its firing timeline completed,
\* update() ended the firing window, forceReset() ran or the wheel changed its
\* DC input, is left with charge 0.
C18_LeavesFiringWithZeroCharge ==
    [][\A n \in Circles :
           (/\ isFiring[n] /\ ~isFiring'[n]
            /\ lastCall' # <<>>
            /\ lastCall'[1].op \in {"timelineComplete", "update", "forceReset", "onWheel"})
               => currentCharge'[n] = 0]_vars

\* A request with these arguments is being served and plays a note.
Plays(weight, speed, requester, iso, dc, d) ==
    /\ lastRequest' # <<>>
    /\ lastRequest'[1].emitted
    /\ lastRequest'[1].at = DateNow
    /\ lastRequest'[1].id = requester
    /\ lastPayload'[1].envelope = AudioParams(weight, speed, iso, dc, d).envelope
    /\ PlayNeuronFiring(weight, speed, requester, iso, dc, d)

\* C19: an isolated neuron firing with DC plays, whatever the weight, speed
\* and distance, with sustain 0, release 0, reverbWet 0, chorusWet 0.2 and
\* velocity 0.6; isolated without DC, velocity 0.4 and reverbWet = chorusWet = 0.
C19_IsolatedFiring ==
    [][\A weight \in AudioWeights, speed \in AudioSpeeds, requester \in AudioIds,
          d \in AudioDistances :
           /\ Plays(weight, speed, requester, TRUE, TRUE, d) =>
                  /\ lastPayload'[1].envelope.sustain = 0
                  /\ lastPayload'[1].envelope.release = 0
                  /\ lastPayload'[1].effects.reverbWet = 0
                  /\ lastPayload'[1].effects.chorusWet = 200000
                  /\ lastPayload'[1].velocity = 600000
           /\ Plays(weight, speed, requester, TRUE, FALSE, d) =>
                  /\ lastPayload'[1].effects.reverbWet = 0
                  /\ lastPayload'[1].effects.chorusWet = 0
                  /\ lastPayload'[1].velocity = 400000]_vars

C19_Witness ==
    /\ lastRequest # <<>> /\ lastRequest[1].emitted
    /\ lastPayload[1].envelope.sustain = 0
    /\ lastPayload[1].effects.chorusWet = 200000
    /\ lastPayload[1].velocity = 600000
    /\ Len(emitTimes) = 2

\* C20: a non-isolated firing plays with reverbWet = min(0.3, distance * 0.1)
\* and chorusWet = 0.1 + s * 0.1, s being the speed clamped to 0.2 .. 0.8;
\* weight 0.5, speed 0.5, distance 10 give 0.3 and 0.15; reverbWet is never
\* above 0.3.
C20_NonIsolatedEffects ==
    [][\A weight \in AudioWeights, speed \in AudioSpeeds, requester \in AudioIds,
          dc \in BOOLEAN, d \in AudioDistances :
           Plays(weight, speed, requester, FALSE, dc, d) =>
               LET s == IF speed < 200 THEN 200 ELSE IF speed > 800 THEN 800 ELSE speed
                   fx == lastPayload'[1].effects
               IN  /\ fx.reverbWet = (IF d * 100 < 300000 THEN d * 100 ELSE 300000)
                   /\ fx.reverbWet <= 300000
                   /\ fx.chorusWet = 100000 + s * 100
                   /\ (weight = 500 /\ speed = 500 /\ d = 10000) =>
                          (fx.reverbWet = 300000 /\ fx.chorusWet = 150000)]_vars

C20_Witness ==
    /\ lastRequest # <<>> /\ lastRequest[1].emitted
    /\ lastPayload[1].effects.reverbWet = 300000
    /\ lastPayload[1].effects.chorusWet = 150000
    /\ lastPayload[1].envelope.release = 300000 + 10000 * 100
    /\ lastPayload[1].velocity = 500000 + 500 * 300

\* C21: fire() on a neuron that is firing, or that fired less than
\* refractionPeriod ago, changes nothing: isFiring, lastFiringTime and charge
\* stay, no sound is requested and no delivery is scheduled.
C21_FireNoOp ==
    [][\A n \in Circles :
           (/\ CallFire(n)
            /\ (isFiring[n] \/ now - lastFiringTime[n] < refractionPeriod))
               => /\ UNCHANGED <<isFiring, lastFiringTime, currentCharge>>
                  /\ UNCHANGED <<timeouts, particleAnimations, currentAnimation>>
                  /\ UNCHANGED <<soundVars, fireTimes>>]_vars

C21_Witness ==
    /\ lastCall # <<>> /\ lastCall[1].op = "fire"
    /\ lastCall[1].pre.isFiring /\ lastCall[1].pre.refractory
    /\ lastCall[1].pre.lastFiringTime > 0
    /\ lastCall[1].at > lastCall[1].pre.lastFiringTime
    /\ lastCall[1].post.lastFiringTime = lastCall[1].pre.lastFiringTime
    /\ lastCall[1].fired = 0

\* C22: a neuron that is firing stops firing eventually, whatever update(),
\* setDCInput and wheel events come in between (for firings whose timeline
\* ends within the time the model covers).
C22_FiringIsTransient ==
    \A n \in Neurons :
        (isFiring[n] /\ lastFiringTime[n] + timelineDuration <= MaxTicks * TimeStep)
            ~> ~isFiring[n]

C22_Witness ==
    /\ lastCall # <<>> /\ lastCall[1].op = "timelineComplete"
    /\ lastCall[1].pre.isFiring /\ ~lastCall[1].post.isFiring
    /\ lastCall[1].at = lastCall[1].pre.lastFiringTime + timelineDuration
    /\ calls = MaxCalls

\* C23: setDCInput that stores 0 resets the neuron (not firing, charge 0,
\* lastFiringTime 0) when the previous dcInput was <= 0; when the previous
\* dcInput was > 0 it only cancels the bias interval and leaves charge,
\* isFiring and lastFiringTime as they were.
C23_ResetAsymmetry ==
    \A k \in 1 .. Len(lastCall) :
        LET c == lastCall[k]
        IN  (c.op = "setDCInput" /\ c.post.dcInput = 0) =>
               /\ dcInterval[c.n] = 0
               /\ c.pre.dcInput <= 0 =>
                      /\ ~c.post.isFiring
                      /\ c.post.currentCharge = 0
                      /\ c.post.lastFiringTime = 0
               /\ c.pre.dcInput > 0 =>
                      /\ c.post.isFiring = c.pre.isFiring
                      /\ c.post.currentCharge = c.pre.currentCharge
                      /\ c.post.lastFiringTime = c.pre.lastFiringTime

C23_Witness ==
    /\ lastCall # <<>> /\ lastCall[1].op = "setDCInput"
    /\ lastCall[1].pre.dcInput > 0 /\ lastCall[1].post.dcInput = 0
    /\ lastCall[1].pre.currentCharge > 0
    /\ currentCharge[lastCall[1].n] = lastCall[1].pre.currentCharge
    /\ dcInterval[lastCall[1].n] = 0

\* What every tick of the bias interval does: addCharge(dcInput * 0.1) with
\* the dcInput of that moment, and nothing when the neuron is firing or
\* refractory.
BiasTicksAsSpecified ==
    \A k \in 1 .. Len(lastCall) :
        LET c == lastCall[k]
        IN  c.op = "dcInterval" =>
                IF c.pre.isFiring \/ c.pre.refractory
                THEN /\ c.post.currentCharge = c.pre.currentCharge
                     /\ c.fired = 0
                ELSE /\ c.arg = c.pre.dcInput \div 10
                     /\ c.post.currentCharge =
                            (IF c.pre.currentCharge + c.arg < threshold
                             THEN c.pre.currentCharge + c.arg ELSE threshold)

\* C24 as stated: after any setDCInput and cleanup calls a neuron has at most
\* one bias interval, and has one exactly when its dcInput is > 0; each tick
\* adds dcInput * 0.1 unless the neuron is firing or refractory.
C24_BiasTaskIffDCInput ==
    /\ \A n \in Circles :
           /\ intervals[n] <= 1
           /\ intervals[n] = 1 <=> dcInput[n] > 0
    /\ BiasTicksAsSpecified

\* C24, amended: a neuron has at most one bias interval; it has one right
\* after a setDCInput exactly when the stored dcInput is > 0, it has none
\* unless dcInput > 0, and the interval of a neuron whose dcInput stays > 0
\* only goes away in cleanup(); the ticks are as stated.
C24_SingleBiasTask ==
    /\ [](/\ \A n \in Circles :
               /\ intervals[n] <= 1
               /\ intervals[n] = 1 <=> dcInterval[n] # 0
               /\ intervals[n] = 1 => dcInput[n] > 0
          /\ \A k \in 1 .. Len(lastCall) :
                 lastCall[k].op \in {"setDCInput", "onWheel"} =>
                     (intervals[lastCall[k].n] = 1 <=> dcInput[lastCall[k].n] > 0)
          /\ BiasTicksAsSpecified)
    /\ [][\A n \in Circles :
              (intervals[n] = 1 /\ intervals'[n] = 0 /\ dcInput'[n] > 0)
                  => (lastCall' # <<>> /\ lastCall'[1].op = "cleanup"
                      /\ lastCall'[1].n = n)]_vars

C24_Witness ==
    /\ lastCall # <<>> /\ lastCall[1].op = "setDCInput"
    /\ lastCall[1].pre.dcInput > 0 /\ lastCall[1].post.dcInput > 0
    /\ lastCall[1].post.dcInput # lastCall[1].pre.dcInput
    /\ intervals[lastCall[1].n] = 1
    /\ dcInterval[lastCall[1].n] = now + dcTickPeriod
    /\ now > 0

\* C25: a request dropped by the rate limiter changes nothing: lastPlayTime,
\* the note map and the pattern counter stay, the requesting id gets no note,
\* and nothing is emitted later on its behalf.
C25_DroppedRequestChangesNothing ==
    /\ [][(SoundRequest /\ DateNow - lastPlayTime < minTimeBetweenNotes) =>
              /\ ~lastRequest'[1].emitted
              /\ UNCHANGED <<lastPlayTime, isPlaying, neuronNotes, currentPatternIndex,
                             lastNoteIndex, melodyDirection, assignOrder>>
              /\ UNCHANGED <<lastPayload, emitTimes>>]_vars
    /\ [][(lastPayload' # lastPayload \/ emitTimes' # emitTimes
              \/ neuronNotes' # neuronNotes) =>
              (/\ SoundRequest
               /\ lastRequest'[1].emitted /\ lastRequest'[1].at = DateNow)]_vars

C25_Witness ==
    /\ lastRequest # <<>> /\ ~lastRequest[1].emitted
    /\ lastRequest[1].id \notin DOMAIN neuronNotes
    /\ lastRequest[1].at > lastPlayTime
    /\ Len(assignOrder) = 1

\* C26: a neuron that fires with no outgoing edge to a neuron hands the mapper
\* weight 0.3, speed 0.9, distance 0 if its dcInput > 0 and weight 0.15, speed
\* 0.2, distance 0 otherwise, with isIsolated; else the means of weight, speed
\* and distance over its outgoing edges, without isIsolated.
C26_FireStatistics ==
    \A k \in 1 .. Len(lastCall) :
        lastCall[k].fired > 0 =>
            LET r == lastCall[k].request[1]
                f == r.neuron
                targets == {t \in Circles : t \in outgoingConnections[f]}
                count == Cardinality(targets)
            IN  /\ lastRequest # <<>>
                /\ lastRequest[1].id = id[f] /\ lastRequest[1].at = DateNow
                /\ r.hasDC = (dcInput[f] > 0)
                /\ lastRequest[1].emitted =>
                       lastPayload[1].velocity =
                           (IF r.isIsolated THEN (IF r.hasDC THEN 600000 ELSE 400000)
                            ELSE 500000 + 300 * (IF r.weight < 200 THEN 200
                                                 ELSE IF r.weight > 800 THEN 800
                                                 ELSE r.weight))
                /\ IF count = 0
                   THEN /\ r.isIsolated
                        /\ r.distance = 0
                        /\ dcInput[f] > 0 => (r.weight = 300 /\ r.speed = 900)
                        /\ dcInput[f] <= 0 => (r.weight = 150 /\ r.speed = 200)
                   ELSE /\ ~r.isIsolated
                        /\ r.weight = SumOver([t \in targets |-> synapticWeights[f][t]],
                                              targets) \div count
                        /\ r.speed = SumOver([t \in targets |-> synapticSpeeds[f][t]],
                                             targets) \div count
                        /\ r.distance = SumOver([t \in targets |-> Distance(position, f, t)],
                                                targets) \div count

C26_Witness ==
    /\ lastCall # <<>> /\ lastCall[1].fired > 0
    /\ outgoingConnections[lastCall[1].request[1].neuron] = {0, 1}
    /\ lastCall[1].request[1].weight = (defaultWeight + 600) \div 2
    /\ lastCall[1].request[1].speed = (300 + sliderMaxSpeed) \div 2
    /\ lastCall[1].request[1].distance > 0
    /\ lastCall[1].request[1].hasDC

\* C27: the velocity of a payload is 0.6 (isolated, DC), 0.4 (isolated, no DC),
\* else 0.5 + w * 0.3 with w the weight clamped to 0.2 .. 0.8; its duration is
\* max(0.1, sustain + release); so velocity is within 0.4 .. 0.74 and
\* duration is at least 0.1.
C27_VelocityAndDuration ==
    [][\A weight \in AudioWeights, speed \in AudioSpeeds, requester \in AudioIds,
          iso \in BOOLEAN, dc \in BOOLEAN, d \in AudioDistances :
           Plays(weight, speed, requester, iso, dc, d) =>
               LET w == IF weight < 200 THEN 200 ELSE IF weight > 800 THEN 800 ELSE weight
                   p == lastPayload'[1]
                   held == p.envelope.sustain + p.envelope.release
               IN  /\ p.velocity = (IF iso THEN (IF dc THEN 600000 ELSE 400000)
                                    ELSE 500000 + w * 300)
                   /\ p.duration = (IF held > 100000 THEN held ELSE 100000)
                   /\ 400000 <= p.velocity /\ p.velocity <= 740000
                   /\ p.duration >= 100000]_vars

C27_Witness ==
    /\ lastRequest # <<>> /\ lastRequest[1].emitted
    /\ lastPayload[1].velocity = 740000
    /\ lastPayload[1].duration = 180000 + 300000 + 10000 * 100

\* C28: the travel time of a particle is 4.0 - (speed - 0.1) * 3.4 / 0.8:
\* 4.0 at speed 0.1, 0.6 at speed 0.9, shorter for a higher speed, and within
\* 0.6 .. 4.0 for every speed an edge stores.
C28_TravelDurationRange ==
    /\ [](/\ TravelDuration(100) = 4000 /\ TravelDuration(900) = 600
          /\ \A a, b \in SliderSpeeds \cup RandomSpeeds :
                 a < b => TravelDuration(a) > TravelDuration(b)
          /\ \A n \in Circles : \A t \in DOMAIN synapticSpeeds[n] :
                 /\ 600 <= TravelDuration(synapticSpeeds[n][t])
                 /\ TravelDuration(synapticSpeeds[n][t]) <= 4000)
    /\ [][\A i \in 1 .. Len(timeouts) :
              (TimeoutFires(i) /\ Len(particleAnimations') > Len(particleAnimations)) =>
                  LET particle == particleAnimations'[Len(particleAnimations')]
                  IN  /\ 600 <= particle.due - now
                      /\ particle.due - now <= 4000]_vars

\* The entries of neuron n's outgoing Set and Maps for the targets other than t
\* are the same before and after the step.
OtherTargetsUnchanged(n, t) ==
    /\ outgoingConnections'[n] \ {t} = outgoingConnections[n] \ {t}
    /\ Drop(synapticWeights'[n], t) = Drop(synapticWeights[n], t)
    /\ Drop(synapticSpeeds'[n], t) = Drop(synapticSpeeds[n], t)

OtherNeuronsUnchanged(s) ==
    \A n \in Neurons \ {s} :
        /\ outgoingConnections'[n] = outgoingConnections[n]
        /\ synapticWeights'[n] = synapticWeights[n]
        /\ synapticSpeeds'[n] = synapticSpeeds[n]

\* C29: a createConnection(s, t) between two neurons appends one edge s->t with
\* weight 0.2 and a speed within 0.3 .. 0.8, puts t in s's outgoing set with
\* that weight and that speed, and changes no other edge record, no other
\* target's entry of s and no other neuron's outgoing set and maps.
C29_CreateConnectionEffect ==
    [][\A s, t \in Circles :
          CreateConnectionCall(s, t) =>
              LET k == Len(connections')
              IN  /\ k = Len(connections) + 1
                  /\ SubSeq(connections', 1, k - 1) = connections
                  /\ connections'[k].source = s /\ connections'[k].target = t
                  /\ connections'[k].weight = defaultWeight
                  /\ connections'[k].speed >= 300 /\ connections'[k].speed <= 800
                  /\ t \in outgoingConnections'[s]
                  /\ t \in DOMAIN synapticWeights'[s] /\ t \in DOMAIN synapticSpeeds'[s]
                  /\ synapticWeights'[s][t] = connections'[k].weight
                  /\ synapticSpeeds'[s][t] = connections'[k].speed
                  /\ OtherTargetsUnchanged(s, t)
                  /\ OtherNeuronsUnchanged(s)]_vars

\* A second edge was just created next to an edge of another neuron.
C29_Witness ==
    /\ lastOp.op = "createConnection"
    /\ Len(connections) = 2
    /\ connections[2].source = lastOp.a /\ connections[2].target = lastOp.b
    /\ connections[1].source # lastOp.a
    /\ lastOp.b \in outgoingConnections[lastOp.a]
    /\ synapticSpeeds[lastOp.a][lastOp.b] = connections[2].speed

\* C30: a double-click on the arrow of the edge s->t removes that entry from
\* the edge set and t from s's outgoing set, weights and speeds; the other
\* entries of the edge set, the other targets of s and the other neurons'
\* outgoing sets and maps stay as they were.
C30_RemovalEffect ==
    [][\A i \in 1 .. Len(connections) :
          HandleDoubleClick(i) =>
              LET s == connections[i].source
                  t == connections[i].target
              IN  /\ connections' = SeqRemove(connections, i)
                  /\ t \notin outgoingConnections'[s]
                  /\ t \notin DOMAIN synapticWeights'[s]
                  /\ t \notin DOMAIN synapticSpeeds'[s]
                  /\ OtherTargetsUnchanged(s, t)
                  /\ OtherNeuronsUnchanged(s)]_vars

\* One of two edges was just removed; the edge of the other neuron is left.
C30_Witness ==
    /\ lastOp.op = "handleDoubleClick"
    /\ Len(connections) = 1
    /\ connections[1].source # lastOp.a
    /\ connections[1].target \in outgoingConnections[connections[1].source]
    /\ lastOp.b \notin outgoingConnections[lastOp.a]
    /\ lastOp.b \notin DOMAIN synapticWeights[lastOp.a]

\* The entries of the edge set that join neurons a and b, in either direction.
Joining(a, b) ==
    {i \in 1 .. Len(connections) :
        \/ connections[i].source = a /\ connections[i].target = b
        \/ connections[i].source = b /\ connections[i].target = a}

\* With the mover at the place the step puts it, no other neuron needs
\* resolving: each is at distance >= 0.5, or is joined to the mover by edges
\* that all have the mover as source.
NothingToResolve(mover) ==
    \A o \in Circles \ {mover} :
        \/ ~Near(position', mover, o)
        \/ /\ Joining(mover, o) # {}
           /\ \A i \in Joining(mover, o) : connections[i].source = mover

\* C31: a proximity check in which every other neuron is at distance >= 0.5 or
\* already the target of the mover's edge leaves the edge set (and with it each
\* edge's weight and speed) and every neuron's outgoing set, weights and
\* speeds unchanged.
C31_ProximityNoChange ==
    [][\A x \in PosX :
          (OnMouseMove(x) /\ NothingToResolve(draggedNeuron)) =>
              /\ connections' = connections
              /\ outgoingConnections' = outgoingConnections
              /\ synapticWeights' = synapticWeights
              /\ synapticSpeeds' = synapticSpeeds]_vars

\* A proximity check has just run for a mover that is within 0.5 of the other
\* neuron and already was the source of the edge between them.
C31_Witness ==
    /\ lastOp.op = "onMouseMove"
    /\ lastOp.noEdge = {} /\ lastOp.reverse = {}
    /\ \E o \in Circles \ {lastOp.a} :
           /\ Near(position, lastOp.a, o)
           /\ \E i \in 1 .. Len(connections) :
                  connections[i].source = lastOp.a /\ connections[i].target = o

\* Neuron n was disposed of by cleanup() and no handler ran on the neurons
\* since.
CleanedUp(n) == lastCall # <<>> /\ lastCall[1].op = "cleanup" /\ lastCall[1].n = n

\* C32: a validation sweep leaves no edge whose arrow is detached and no edge
\* whose source or target is not a live neuron.
C32_SweepRemovesDeadEdges ==
    [][ValidateConnections =>
          \A i \in 1 .. Len(connections') :
              /\ connections'[i].arrowParent
              /\ connections'[i].source \in Circles /\ ~CleanedUp(connections'[i].source)
              /\ connections'[i].target \in Circles /\ ~CleanedUp(connections'[i].target)]_vars

UnitInterval == 0 .. 1000

\* C33: every weight and speed stored in an edge record or in a neuron's
\* synapticWeights / synapticSpeeds lies within 0 .. 1.
C33_WeightsAndSpeedsInRange ==
    /\ \A i \in 1 .. Len(connections) :
           connections[i].weight \in UnitInterval /\ connections[i].speed \in UnitInterval
    /\ \A n \in Circles :
           /\ \A t \in DOMAIN synapticWeights[n] : synapticWeights[n][t] \in UnitInterval
           /\ \A t \in DOMAIN synapticSpeeds[n] : synapticSpeeds[n][t] \in UnitInterval

\* An arrow was just dragged past the target's end (speed 1.0) on an edge whose
\* weight the wheel or the slider brought to 0, next to a created edge.
C33_Witness ==
    /\ lastOp.op = "handlePointerMove"
    /\ Len(connections) = 2
    /\ \E i \in 1 .. Len(connections) :
           /\ connections[i].speed = 1000 /\ connections[i].weight = 0
           /\ synapticSpeeds[connections[i].source][connections[i].target] = 1000
    /\ \E n \in Circles : \E t \in DOMAIN synapticWeights[n] : synapticWeights[n][t] = 1000

C35_OneEdgePerPair ==
    \A a, b \in Circles : a # b => Cardinality(Joining(a, b)) <= 1

\* The check run by a throw update has just turned the edge other->mover
\* into mover->other.
C35_Witness ==
    /\ lastOp.op = "throwUpdate"
    /\ lastOp.a \in Circles
    /\ lastOp.reverse # {}
    /\ Len(connections) = 1
    /\ connections[1].source = lastOp.a
    /\ connections[1].target \in lastOp.reverse

\* The time a neuron with dcInput 1.0 needs at most to fire again: the firing
\* timeline, then threshold / (dcInput * 0.1) ticks of the bias interval.
BiasFirePeriod == timelineDuration + 11 * dcTickPeriod

\* C36: a neuron whose dcInput > 0 stays as setDCInput stored it fires again
\* and again with no incoming edge: whenever it is not firing it eventually
\* fires, and whenever it is firing it eventually stops.  A neuron with
\* dcInput = 0 and a charge below the threshold only fires in a direct fire().
C36_BiasFiresRepeatedly ==
    /\ (dcInput[0] > 0 /\ ~isFiring[0]
           /\ now + BiasFirePeriod <= MaxBiasTicks * TimeStep)
          ~> (isFiring[0] \/ dcInput[0] = 0)
    /\ (isFiring[0] /\ lastFiringTime[0] + timelineDuration <= MaxBiasTicks * TimeStep)
          ~> ~isFiring[0]
    /\ [][(/\ dcInput[0] = 0 /\ currentCharge[0] < threshold
           /\ lastCall' # <<>> /\ lastCall' # lastCall
           /\ lastCall'[1].fired > 0)
          => lastCall'[1].op = "fire"]_vars

\* The bias alone (setDCInput was the only call) has fired neuron 0 twice.
C36_Witness ==
    /\ calls = 1
    /\ dcInput[0] > 0
    /\ Len(fireTimes[0]) = 2
    /\ fireTimes[0][2] > fireTimes[0][1]
    /\ outgoingConnections[0] = {} /\ connections = <<>>

\* The targets of neuron n's outgoing set that are neurons.
LiveTargets(n) == {t \in outgoingConnections[n] : t \in Circles}

\* The handler of this step fired neuron n (and no other neuron).
Fires(n) ==
    /\ lastCall' # <<>> /\ lastCall' # lastCall
    /\ lastCall'[1].fired = 1
    /\ lastCall'[1].request[1].neuron = n

\* C37: a firing of neuron n schedules one delivery for each live target of its
\* outgoing set, carrying the weight the set has for the target at that
\* moment; the scheduled callback spawns at most one particle with that
\* weight; the particle's arrival calls addCharge(weight) on the target once,
\* whatever the edge's weight is by then.
C37_OneDeliveryPerEdge ==
    [][/\ \A n \in Circles :
             Fires(n) =>
                 LET k == Len(timeouts)
                     new == SubSeq(timeouts', k + 1, Len(timeouts'))
                 IN  /\ SubSeq(timeouts', 1, k) = timeouts
                     /\ Len(new) = Cardinality(LiveTargets(n))
                     /\ \A t \in LiveTargets(n) :
                            \E j \in 1 .. Len(new) :
                                /\ new[j].source = n /\ new[j].targetIndex = t
                                /\ new[j].weight = synapticWeights[n][t]
       /\ \A i \in 1 .. Len(timeouts) :
             TimeoutFires(i) =>
                 /\ timeouts' = SeqRemove(timeouts, i)
                 /\ \/ particleAnimations' = particleAnimations
                    \/ /\ Len(particleAnimations') = Len(particleAnimations) + 1
                       /\ particleAnimations'[Len(particleAnimations')].weight
                              = timeouts[i].weight
                       /\ particleAnimations'[Len(particleAnimations')].targetIndex
                              = timeouts[i].targetIndex
       /\ \A i \in 1 .. Len(particleAnimations) :
             ParticleArrives(i) =>
                 LET p == particleAnimations[i]
                     c == lastCall'[1]
                 IN  /\ particleAnimations' = SeqRemove(particleAnimations, i)
                     /\ c.n = p.targetIndex
                     /\ c.post.currentCharge =
                            IF c.pre.isFiring \/ c.pre.refractory
                            THEN c.pre.currentCharge
                            ELSE Min(c.pre.currentCharge + p.weight, threshold)]_vars

\* A particle has just added the weight its firing captured to the target,
\* after the wheel changed the edge's weight.
C37_Witness ==
    /\ lastCall # <<>>
    /\ lastCall[1].op = "particleComplete"
    /\ lastCall[1].arg # WeightOf(0, 1)
    /\ lastCall[1].post.currentCharge = lastCall[1].pre.currentCharge + lastCall[1].arg
    /\ lastCall[1].arg > 0

\* C38: a neuron whose lastFiringTime is 0 (never fired, or force-reset) is not
\* refractory whatever the clock shows, and an addCharge with a positive
\* amount raises its charge (unless it is firing or at the threshold).
C38_NeverFiredNotRefractory ==
    \A k \in 1 .. Len(lastCall) :
        LET c == lastCall[k]
        IN  c.pre.lastFiringTime = 0 =>
                /\ ~c.pre.refractory
                /\ (/\ IsAddCharge(c) /\ c.arg > 0
                    /\ ~c.pre.isFiring /\ c.pre.currentCharge < threshold)
                       => c.post.currentCharge > c.pre.currentCharge

\* C39: a neuron that is still firing when update() returns fired less than
\* refractionPeriod ago; an update() that runs between refractionPeriod and
\* 2 * refractionPeriod after the firing clears isFiring, and isFiring is only
\* set together with lastFiringTime = now, so the stuck-state reset needs a
\* firing that no update() saw in that interval.
C39_UpdateClearsFiring ==
    /\ [](\A k \in 1 .. Len(lastCall) :
            LET c == lastCall[k]
            IN  c.op = "update" =>
                    /\ c.post.isFiring => c.at - c.post.lastFiringTime < refractionPeriod
                    /\ (/\ c.pre.isFiring
                        /\ c.at - c.pre.lastFiringTime >= refractionPeriod
                        /\ c.at - c.pre.lastFiringTime <= 2 * refractionPeriod)
                           => ~c.post.isFiring /\ c.post.lastFiringTime = c.pre.lastFiringTime)
    /\ [][\A n \in Neurons :
              (~isFiring[n] /\ isFiring'[n]) => lastFiringTime'[n] = now]_vars

\* update() has just cleared the firing flag of a neuron that fired between
\* refractionPeriod and 2 * refractionPeriod before.
C39_Witness ==
    /\ lastCall # <<>>
    /\ lastCall[1].op = "update"
    /\ lastCall[1].pre.isFiring /\ ~lastCall[1].post.isFiring
    /\ lastCall[1].at - lastCall[1].pre.lastFiringTime >= refractionPeriod
    /\ lastCall[1].at - lastCall[1].pre.lastFiringTime <= 2 * refractionPeriod
    /\ lastCall[1].post.lastFiringTime = lastCall[1].pre.lastFiringTime

\* C40: when a proximity check replaces the edge o -> mover by mover -> o, the
\* new edge has weight 0.2 and a speed in [0.3, 0.8], and the mover's synaptic
\* weight and speed for o are those values, whatever the weight and speed of
\* the replaced edge were.
C40_TransferDoesNotInherit ==
    [][\A x \in PosX :
          OnMouseMove(x) =>
              \A o \in Circles \ {draggedNeuron} :
                  LET e == ExistingConnection(connections, draggedNeuron, o)
                  IN  (/\ e # 0
                       /\ connections[e].source = o
                       /\ Near(position', draggedNeuron, o)) =>
                          \E i \in 1 .. Len(connections') :
                              /\ connections'[i].source = draggedNeuron
                              /\ connections'[i].target = o
                              /\ connections'[i].weight = defaultWeight
                              /\ connections'[i].speed >= 300
                              /\ connections'[i].speed <= 800
                              /\ o \in DOMAIN synapticWeights'[draggedNeuron]
                              /\ o \in DOMAIN synapticSpeeds'[draggedNeuron]
                              /\ synapticWeights'[draggedNeuron][o] = defaultWeight
                              /\ synapticSpeeds'[draggedNeuron][o] = connections'[i].speed]_vars

\* A proximity check has just replaced a selected edge o -> mover whose weight
\* or speed had been edited away from the creation values; the Map holds the
\* new edge mover -> o and the selection still holds the replaced object.
C40_Witness ==
    /\ lastOp.op = "onMouseMove"
    /\ lastOp.reverse # {}
    /\ selectedConnection # NoSelection
    /\ selectedConnection[1].idx = 0
    /\ LET old == selectedConnection[1].conn[1]
       IN  /\ old.source \in lastOp.reverse /\ old.target = lastOp.a
           /\ old.weight # defaultWeight
           /\ old.speed < 300 \/ old.speed > 800
           /\ \E i \in 1 .. Len(connections) :
                  /\ connections[i].source = lastOp.a
                  /\ connections[i].target = old.source
                  /\ connections[i].weight = defaultWeight

=============================================================================
